---- MODULE Spec2Model ----
(***************************************************************************)
(* A model of the bitcoin -> ArangoDB importer.                            *)
(*                                                                         *)
(* The repository holds several generations of the importer:               *)
(*   - src/index.js            single file, every write is a single        *)
(*                             document save (save / replace / upsert);    *)
(*   - src/unnamed/part_005    single file, pipelined driver, three edge   *)
(*                             collections, several writes not awaited;    *)
(*   - src/worker.js with src/unnamed/part_002 (the db module): the block  *)
(*                             processor on top of the buffering gateway.  *)
(* Part 1 below models the buffering gateway (part_002).                   *)
(***************************************************************************)
EXTENDS Integers, Sequences, FiniteSets, Bags, TLC

(***************************************************************************)
(* Bounds of the model.                                                    *)
(***************************************************************************)
\* The flush threshold.  The source sets 1000 (part_002 line 88); the model
\* scales it down, every property below is stated relative to it.
NUM_BUFFERED_DOCUMENTS == 2
\* Number of save calls made on the gateway in the gateway specifications.
MaxSaves == 4

\* The longest list handed to map.
MaxList == 2

\* The greatest number of subsidy halvings tried.
MaxHalvings == 4

\* Number of blocks of the chain the node serves (heights 1..ChainLen).
ChainLen == 2

\* The number of requests storage may leave unanswered at a time.
MaxInFlight == 5
\* The largest retry budget tried (commander.retries, 3 by default).
MaxRetries == 2

VARIABLES
    \* the buffering gateway (part_002)
    entities,     \* <entity>.entities, the per-kind buffers
    imports,      \* bulk-import requests sent to storage and not yet answered
    importCalls,  \* number of handle.import calls made so far
    calls,        \* number of save calls made so far
    last,         \* the gateway call that returned last
    dbPhase,      \* "running" | "drained" | "failed" | "exited"
    flushCalls,   \* number of times commit was entered
    importRejected, \* a handle.import promise was rejected (nobody holds it)
    \* storage
    stored,       \* per collection, the bag of persisted documents
    \* a run of the importer (index.js, part_005)
    variant,      \* which generation of the importer runs
    ASYNC,        \* commander.async
    dontOverwrite,\* commander.dontOverwrite
    clean,        \* commander.clean
    errors,       \* which of the three errors modules the importer requires
    noScript,     \* <<b, t>>: the transaction whose output the node serves
                  \* without scriptPubKey, or <<0, 0>>
    tty,          \* process.stdout is a terminal
    fork,         \* the node serves the two-block chain: block 1, then ForkBlock
    pc,           \* where run() stands
    blockHash,    \* run's blockHash variable
    block,        \* run's block variable: the height of the block it holds, or 0
    rpc,          \* the hash asked of the node by a getBlock call not yet answered
    stop,         \* the latched stop flag
    exitCode,     \* the exit code, once the process has exited
    unhandledRejections, \* the keys of the unhandledRejections map
    reported,     \* the errors logged on the way out
    summary,      \* the "Processed ... blocks and ... transactions" line was logged
    handed,       \* the heights of the blocks handed to processBlock, in order
    res,          \* per storage operation of the run: its outcome so far
    \* one call of saveDocument (index.js, part_002, part_004)
    sdModule,     \* the file whose saveDocument runs
    RETRIES,      \* the retry budget (commander.retries, RETRIES)
    DONT_OVERWRITE, \* commander.dontOverwrite, DONT_OVERWRITE
    sdArg,        \* the dontOverwrite argument of the call (part_002)
    kept,         \* the document stored under the key: "none" | "old" | "new"
    sdPc,         \* "idle" | "attempt" | "yield" | "get" | "done"
    operation,    \* the operation _modifyCollection was called with
    left,         \* the retries parameter of the running _modifyCollection
    answered,     \* per operation, storage's answers to its attempts, in order
    outcome,      \* how saveDocument ended
    cause,        \* the error inside the MyError saveDocument threw
    \* one call of getBlockSubsidy (index.js, worker.js, part_004, part_005)
    sbModule,     \* the file whose getBlockSubsidy runs
    sbHeight,     \* the height it is called with
    sbSubsidy,    \* what it returned
    \* one call of map(processInput, transaction.vin, transaction, block)
    mpModule,     \* the file whose map and processInput run
    mpAsync,      \* commander.async, ASYNC
    mpTx,         \* the position of the transaction in its block, from 0
    mpList,       \* the list: per input "coinbase" or "spend"
    mpCalls,      \* the calls of func made so far: element and index argument
    mpSettled,    \* the positions whose call has returned
    mpWarned,     \* the positions a warning was logged for
    mpRet,        \* ret
    mpPc          \* "idle" | "running" | "returned"

\* A saveDocument call is followed on its own: the buffering calls of the
\* gateway and the steps of a run leave its variables alone.
docVars == <<sdModule, RETRIES, DONT_OVERWRITE, sdArg, kept, sdPc, operation, left,
            answered, outcome, cause>>

gwOwn == <<entities, imports, importCalls, calls, last, dbPhase, flushCalls,
          importRejected>>

\* A getBlockSubsidy call is followed on its own as well.
subVars == <<sbModule, sbHeight, sbSubsidy>>

\* And so is a call of map.
mapVars == <<mpModule, mpAsync, mpTx, mpList, mpCalls, mpSettled, mpWarned, mpRet, mpPc>>

gwVars == <<gwOwn, docVars, subVars, mapVars>>

runOwn == <<variant, ASYNC, dontOverwrite, clean, errors, noScript, tty, fork, pc, blockHash, block,
            rpc, stop, exitCode, unhandledRejections, reported, summary, handed, res,
            subVars, mapVars>>

runVars == <<runOwn, docVars>>

vars == <<gwVars, stored, runVars>>

(***************************************************************************)
(* Part 1.  The storage gateway, src/unnamed/part_002.                     *)
(***************************************************************************)
BLOCKS == "blocks"
TRANSACTIONS == "transactions"
OUTPUTS == "outputs"
ADDRESSES == "addresses"
ADDRESSES_TO_OUTPUTS == "addresses_to_outputs"
OUTPUTS_TO_TRANSACTIONS == "outputs_to_transactions"
TRANSACTIONS_TO_OUTPUTS == "transactions_to_outputs"

\* The order in which commit walks the entities.
commitOrder ==
    << BLOCKS, TRANSACTIONS, OUTPUTS, ADDRESSES,
       ADDRESSES_TO_OUTPUTS, OUTPUTS_TO_TRANSACTIONS, TRANSACTIONS_TO_OUTPUTS >>

Collections == { commitOrder[i] : i \in 1..Len(commitOrder) }

\* What the db module exports: commit is defined but is not in the list.
module_exports ==
    { "init", "cleanDatabase", "initializeDatabase", "getLastBlockHeight",
      "saveBlock", "saveTransaction", "saveOutput", "saveAddress",
      "saveAddressToOutput", "saveOutputToTransaction", "saveTransactionToOutput" }

\* The gateway's own state as one value, so that the functions of the module
\* can be written as functions.
DbState == [ entities |-> entities, imports |-> imports, importCalls |-> importCalls ]

\* An importDocuments that sends the request and keeps the buffer.
importDocuments_keepsBuffer(db, entity) ==
    [ db EXCEPT !.imports = @ \cup { [ n |-> db.importCalls + 1, kind |-> entity,
                                       docs |-> db.entities[entity] ] },
                !.importCalls = @ + 1 ]

\* importDocuments(entity): entity.handle.import(entity.entities) is called and
\* NOT awaited; the buffer is replaced by an empty one at once.
importDocuments(db, entity) ==
    [ db EXCEPT !.imports = @ \cup { [ n |-> db.importCalls + 1, kind |-> entity,
                                       docs |-> db.entities[entity] ] },
                !.importCalls = @ + 1,
                !.entities[entity] = << >> ]

saveBlock(db, id, height, time, tx) ==
    LET pushed == [ db EXCEPT !.entities[BLOCKS] =
                        Append(@, [ _key |-> id, height |-> height, time |-> time, tx |-> tx ]) ]
    IN  IF Len(pushed.entities[BLOCKS]) >= NUM_BUFFERED_DOCUMENTS
        THEN importDocuments(pushed, BLOCKS)
        ELSE pushed

\* The second argument of the callers (the block hash) is not a parameter.
saveTransaction(db, transactionId) ==
    LET pushed == [ db EXCEPT !.entities[TRANSACTIONS] = Append(@, [ _key |-> transactionId ]) ]
    IN  IF Len(pushed.entities[TRANSACTIONS]) >= NUM_BUFFERED_DOCUMENTS
        THEN importDocuments(pushed, TRANSACTIONS)
        ELSE pushed

\* A saveOutput that flushes only above the threshold.
saveOutput_flushesAbove(db, outputId, value) ==
    LET pushed == [ db EXCEPT !.entities[OUTPUTS] =
                        Append(@, [ _key |-> outputId, value |-> value ]) ]
    IN  IF Len(pushed.entities[OUTPUTS]) > NUM_BUFFERED_DOCUMENTS
        THEN importDocuments(pushed, OUTPUTS)
        ELSE pushed

saveOutput(db, outputId, value) ==
    LET pushed == [ db EXCEPT !.entities[OUTPUTS] =
                        Append(@, [ _key |-> outputId, value |-> value ]) ]
    IN  IF Len(pushed.entities[OUTPUTS]) >= NUM_BUFFERED_DOCUMENTS
        THEN importDocuments(pushed, OUTPUTS)
        ELSE pushed

\* A saveAddressToOutput that puts the edge into the buffer of the addresses.
saveAddressToOutput_intoAddresses(db, address, outputId) ==
    [ db EXCEPT !.entities[ADDRESSES] =
          Append(@, [ _from |-> <<ADDRESSES, address>>, _to |-> <<OUTPUTS, outputId>> ]) ]

saveAddressToOutput(db, address, outputId) ==
    LET pushed == [ db EXCEPT !.entities[ADDRESSES_TO_OUTPUTS] =
                        Append(@, [ _from |-> <<ADDRESSES, address>>,
                                    _to |-> <<OUTPUTS, outputId>> ]) ]
    IN  IF Len(pushed.entities[ADDRESSES_TO_OUTPUTS]) >= NUM_BUFFERED_DOCUMENTS
        THEN importDocuments(pushed, ADDRESSES_TO_OUTPUTS)
        ELSE pushed

\* The address document, then the edge address -> "<transactionId>:<outputId>".
saveAddress(db, address, transactionId, outputId) ==
    LET pushed == [ db EXCEPT !.entities[ADDRESSES] = Append(@, [ _key |-> address ]) ]
        flushed == IF Len(pushed.entities[ADDRESSES]) >= NUM_BUFFERED_DOCUMENTS
                   THEN importDocuments(pushed, ADDRESSES)
                   ELSE pushed
    IN  saveAddressToOutput(flushed, address, <<transactionId, outputId>>)

saveOutputToTransaction(db, outputId, transactionId) ==
    LET pushed == [ db EXCEPT !.entities[OUTPUTS_TO_TRANSACTIONS] =
                        Append(@, [ _from |-> <<OUTPUTS, outputId>>,
                                    _to |-> <<TRANSACTIONS, transactionId>> ]) ]
    IN  IF Len(pushed.entities[OUTPUTS_TO_TRANSACTIONS]) >= NUM_BUFFERED_DOCUMENTS
        THEN importDocuments(pushed, OUTPUTS_TO_TRANSACTIONS)
        ELSE pushed

saveTransactionToOutput(db, transactionId, outputId) ==
    LET pushed == [ db EXCEPT !.entities[TRANSACTIONS_TO_OUTPUTS] =
                        Append(@, [ _from |-> <<TRANSACTIONS, transactionId>>,
                                    _to |-> <<OUTPUTS, outputId>> ]) ]
    IN  IF Len(pushed.entities[TRANSACTIONS_TO_OUTPUTS]) >= NUM_BUFFERED_DOCUMENTS
        THEN importDocuments(pushed, TRANSACTIONS_TO_OUTPUTS)
        ELSE pushed

\* commit: the loop over the seven entities, from position i on.
RECURSIVE commitFrom(_, _)
commitFrom(db, i) ==
    IF i > Len(commitOrder) THEN db
    ELSE commitFrom( IF Len(db.entities[commitOrder[i]]) > 0
                     THEN importDocuments(db, commitOrder[i])
                     ELSE db,
                     i + 1 )

commit(db) == commitFrom(db, 1)

(***************************************************************************)
(* Storage's side of a bulk import.  A document whose _key is already in   *)
(* the collection is refused (the import call itself succeeds); a document *)
(* without _key (the edges of part_002) gets a key of its own.             *)
(***************************************************************************)
HasKey(doc) == "_key" \in DOMAIN doc

KeyIn(bag, key) == \E d \in BagToSet(bag) : HasKey(d) /\ d._key = key

RECURSIVE importInto(_, _)
importInto(bag, docs) ==
    IF docs = << >> THEN bag
    ELSE LET d == Head(docs)
         IN  importInto( IF HasKey(d) /\ KeyIn(bag, d._key) THEN bag ELSE bag (+) SetToBag({d}),
                         Tail(docs) )

(***************************************************************************)
(* The gateway as a state machine: its callers' calls, and storage         *)
(* answering the import requests.                                          *)
(***************************************************************************)
GatewayInit ==
    /\ entities = [ k \in Collections |-> << >> ]
    /\ imports = {}
    /\ importCalls = 0
    /\ calls = 0
    /\ last = [ op |-> "none", kind |-> "none" ]
    /\ dbPhase = "running"
    /\ flushCalls = 0
    /\ importRejected = FALSE

\* No saveDocument call is followed.
NoSaveDocument ==
    /\ sdModule = "none"
    /\ RETRIES = 0
    /\ DONT_OVERWRITE = FALSE
    /\ sdArg = FALSE
    /\ kept = "none"
    /\ sdPc = "idle"
    /\ operation = "none"
    /\ left = 0
    /\ answered = [ save |-> << >>, replace |-> << >> ]
    /\ outcome = "none"
    /\ cause = "none"

\* No call of map is followed.
NoMap ==
    /\ mpModule = "none"
    /\ mpAsync = FALSE
    /\ mpTx = 0
    /\ mpList = << >>
    /\ mpCalls = << >>
    /\ mpSettled = {}
    /\ mpWarned = {}
    /\ mpRet = << >>
    /\ mpPc = "idle"

\* No getBlockSubsidy call is followed.
NoSubsidy ==
    /\ sbModule = "none"
    /\ sbHeight = 0
    /\ sbSubsidy = <<0, 0>>

\* The gateway before its first call, with no importer running.
RunIdle ==
    /\ GatewayInit
    /\ stored = [ k \in Collections |-> EmptyBag ]
    /\ variant = "db"
    /\ ASYNC = FALSE
    /\ dontOverwrite = FALSE
    /\ clean = FALSE
    /\ pc = "none"
    /\ blockHash = <<"null", 0>>
    /\ block = 0
    /\ rpc = <<"none", 0>>
    /\ errors = "part_002"
    /\ noScript = <<0, 0>>
    /\ tty = TRUE
    /\ fork = FALSE
    /\ stop = FALSE
    /\ exitCode = -1
    /\ unhandledRejections = {}
    /\ reported = {}
    /\ summary = FALSE
    /\ handed = << >>
    /\ res = << >>

\* The gateway specifications start on empty collections; no run of the
\* single-file importers is part of them.
DbInit ==
    /\ NoSaveDocument
    /\ NoSubsidy
    /\ NoMap
    /\ RunIdle

\* The gateway's state after a call that returned db.
SetDb(db) ==
    /\ entities' = db.entities
    /\ imports' = db.imports
    /\ importCalls' = db.importCalls

\* A save call is made while the run goes on; the n-th call saves entity n.
CanSave == dbPhase = "running" /\ calls < MaxSaves

Returned(op, kind) ==
    /\ calls' = calls + 1
    /\ last' = [ op |-> op, kind |-> kind ]
    /\ UNCHANGED <<stored, dbPhase, flushCalls, importRejected, runVars>>

SaveBlockCall ==
    /\ CanSave
    /\ \E id \in 1..MaxSaves :
          /\ id = calls + 1
          /\ SetDb(saveBlock(DbState, id, id, 0, << >>))
    /\ Returned("saveBlock", BLOCKS)

SaveTransactionCall ==
    /\ CanSave
    /\ \E id \in 1..MaxSaves :
          /\ id = calls + 1
          /\ SetDb(saveTransaction(DbState, id))
    /\ Returned("saveTransaction", TRANSACTIONS)

SaveOutputCall ==
    /\ CanSave
    /\ \E id \in 1..MaxSaves :
          /\ id = calls + 1
          /\ SetDb(saveOutput(DbState, id, 50))
    /\ Returned("saveOutput", OUTPUTS)

SaveAddressCall ==
    /\ CanSave
    /\ \E id \in 1..MaxSaves :
          /\ id = calls + 1
          /\ SetDb(saveAddress(DbState, id, id, 0))
    /\ Returned("saveAddress", ADDRESSES)

SaveAddressToOutputCall ==
    /\ CanSave
    /\ \E id \in 1..MaxSaves :
          /\ id = calls + 1
          /\ SetDb(saveAddressToOutput(DbState, id, <<id, 0>>))
    /\ Returned("saveAddressToOutput", ADDRESSES_TO_OUTPUTS)

SaveOutputToTransactionCall ==
    /\ CanSave
    /\ \E id \in 1..MaxSaves :
          /\ id = calls + 1
          /\ SetDb(saveOutputToTransaction(DbState, <<id, 0>>, id))
    /\ Returned("saveOutputToTransaction", OUTPUTS_TO_TRANSACTIONS)

SaveTransactionToOutputCall ==
    /\ CanSave
    /\ \E id \in 1..MaxSaves :
          /\ id = calls + 1
          /\ SetDb(saveTransactionToOutput(DbState, id, <<id, 0>>))
    /\ Returned("saveTransactionToOutput", TRANSACTIONS_TO_OUTPUTS)

\* commit() called from inside the module (it has no other caller).
CommitCall ==
    /\ dbPhase = "running"
    /\ flushCalls = 0
    /\ SetDb(commit(DbState))
    /\ flushCalls' = flushCalls + 1
    /\ last' = [ op |-> "commit", kind |-> "none" ]
    /\ UNCHANGED <<stored, calls, dbPhase, importRejected, runVars>>

\* Storage answers one bulk-import request.
ImportAnswered ==
    /\ \E r \in imports :
          /\ imports' = imports \ {r}
          /\ stored' = [ stored EXCEPT ![r.kind] = importInto(@, r.docs) ]
    /\ UNCHANGED <<entities, importCalls, calls, last, dbPhase, flushCalls,
                   importRejected, runVars>>

\* Storage rejects one bulk-import request.  importDocuments did not await the
\* promise, so its try/catch is long left: the rejection reaches no caller,
\* the buffer was emptied when the request was sent, and the gateway goes on.
ImportRejected ==
    /\ \E r \in imports : imports' = imports \ {r}
    /\ importRejected' = TRUE
    /\ UNCHANGED <<entities, importCalls, calls, last, dbPhase, flushCalls, stored, runVars>>

\* The driver's Draining step (spec section 4.4): flushAll is called once at
\* clean shutdown, through the module's exports.  A name the module does not
\* export is undefined there, and calling it throws a TypeError.
Drain ==
    /\ dbPhase = "running"
    /\ IF "commit" \in module_exports
       THEN /\ SetDb(commit(DbState))
            /\ flushCalls' = flushCalls + 1
            /\ dbPhase' = "drained"
       ELSE /\ dbPhase' = "failed"
            /\ UNCHANGED <<entities, imports, importCalls, flushCalls>>
    /\ last' = [ op |-> "flushAll", kind |-> "none" ]
    /\ UNCHANGED <<stored, calls, importRejected, runVars>>

\* The process ends when nothing is left on the event loop.
ProcessExit ==
    /\ dbPhase \in {"drained", "failed"}
    /\ imports = {}
    /\ dbPhase' = "exited"
    /\ UNCHANGED <<entities, imports, importCalls, stored, calls, last, flushCalls,
                   importRejected, runVars>>

SaveCall ==
    \/ SaveBlockCall
    \/ SaveTransactionCall
    \/ SaveOutputCall
    \/ SaveAddressCall
    \/ SaveAddressToOutputCall
    \/ SaveOutputToTransactionCall
    \/ SaveTransactionToOutputCall

\* The gateway alone: any calls of its functions, in any order.
NextDb == SaveCall \/ CommitCall \/ ImportAnswered \/ ImportRejected

SpecDb == DbInit /\ [][NextDb]_vars

\* A run seen from the gateway: saves, then the clean shutdown.
NextDbRun == SaveCall \/ ImportAnswered \/ ImportRejected \/ Drain \/ ProcessExit

SpecDbRun == DbInit /\ [][NextDbRun]_vars

(***************************************************************************)
(* Part 2.  A run of the single-file importers: src/index.js and the first *)
(* file of src/unnamed/part_005 (lines 1-583).                             *)
(*                                                                         *)
(* The node.  It serves a linear chain of ChainLen blocks.  Block 1 holds  *)
(* a coinbase transaction; every later block holds a coinbase transaction  *)
(* and a transaction that spends output 0 of that coinbase transaction,   *)
(* in the same block, to two addresses.  Every coinbase pays address "A".  *)
(* A node with fork set serves block 1 and after it ForkBlock, of height   *)
(* 2, whose one transaction spends block 1's output to address "B".        *)
(***************************************************************************)
\* null, and the hash of no request; shaped like a hash so that the two compare.
Null == <<"null", 0>>

NoRpc == <<"none", 0>>

Heights == 1..ChainLen

\* The block that follows block 1 on the two-block chain: its one
\* transaction spends the output of block 1's coinbase transaction to B.
ForkBlock == ChainLen + 1

Hash(h) == <<"hash", h>>

TxId(b, t) == <<"txid", b, t>>

Vin(b, t) ==
    IF b = ForkBlock THEN << [ txid |-> TxId(1, 1), vout |-> 0 ] >>
    ELSE IF t = 1 THEN << [ coinbase |-> "04ffff001d" ] >>
    ELSE << [ txid |-> TxId(b, 1), vout |-> 0 ] >>

Vout(b, t) ==
    IF b = ForkBlock
    THEN << [ n |-> 0, value |-> 50,
              scriptPubKey |-> [ type |-> "pubkey", addresses |-> << "B" >> ] ] >>
    ELSE IF t = 1
    THEN << [ n |-> 0, value |-> 50,
              scriptPubKey |-> [ type |-> "pubkey", addresses |-> << "A" >> ] ] >>
    ELSE << [ n |-> 0, value |-> 50,
              scriptPubKey |-> [ type |-> "multisig", addresses |-> << "A", "B" >> ] ] >>

NumTx(b) == IF b \in {1, ForkBlock} THEN 1 ELSE 2

\* The verbose block the node returns for a height: nextblockhash is absent
\* from the block at the tip.
Block(b) ==
    LET base == [ hash |-> Hash(b), height |-> IF b = ForkBlock THEN 2 ELSE b, time |-> b,
                  tx |-> [ t \in 1..NumTx(b) |->
                             [ txid |-> TxId(b, t), vin |-> Vin(b, t), vout |-> Vout(b, t) ] ] ]
    IN  IF b < ChainLen
        THEN [ f \in DOMAIN base \cup {"nextblockhash"} |->
                 IF f = "nextblockhash" THEN Hash(b + 1) ELSE base[f] ]
        ELSE base

\* client.getBlockHash(height)
NodeBlockHash(height) == Hash(height)

\* block.nextblockhash ? block.nextblockhash : null
NextHashOrNull(b) ==
    IF fork /\ b = 1 THEN Hash(ForkBlock)
    ELSE IF "nextblockhash" \in DOMAIN Block(b) THEN Block(b).nextblockhash
    ELSE Null

Input(b, t, i) == Vin(b, t)[i]

Output(b, t, o) == Vout(b, t)[o]

IsCoinbase(input) == "coinbase" \in DOMAIN input

\* A check that takes every output to have its scriptPubKey.
HasScript_always(output) == TRUE

HasScript(output) == "scriptPubKey" \in DOMAIN output

\* The output as the node serves it in this run: one output of the chain,
\* in a block no earlier run has processed, may come without scriptPubKey.
Served(b, t, o) ==
    IF noScript = <<b, t>>
    THEN [ n |-> Output(b, t, o).n, value |-> Output(b, t, o).value ]
    ELSE Output(b, t, o)

\* output.scriptPubKey.hasOwnProperty('addresses') && addresses.length >= 1
AddressesOf(output) ==
    IF HasScript(output) /\ "addresses" \in DOMAIN output.scriptPubKey
    THEN output.scriptPubKey.addresses
    ELSE << >>

\* An output id that keeps the transaction and drops the index.
OutputId_ofTransaction(txid, n) == <<txid, "0">>

\* `${txid}:${n}`: the pair stands for the concatenation; n is the text the
\* template puts there ("coinbase", or the digits of an index).
OutputId(txid, n) == <<txid, n>>

(***************************************************************************)
(* The storage operations of a run.  An operation is named by the call in  *)
(* the source that starts it and by its place in the chain:                *)
(* <<call, block, transaction, input or output, address>>, 0 where a place *)
(* does not apply.                                                         *)
(***************************************************************************)
OUTPUTS_SPENT_IN == "outputsSpentIn"

AllCollections == Collections \cup { OUTPUTS_SPENT_IN }

InputOps(v, b, t, i) ==
    IF IsCoinbase(Input(b, t, i))
    THEN { <<"in.saveOutput", b, t, i, 0>>, <<"in.saveEdge", b, t, i, 0>> }
    ELSE { <<"in.getDocument", b, t, i, 0>>, <<"in.saveEdge", b, t, i, 0>> }

OutputOps(v, b, t, o) ==
    { <<"out.saveOutput", b, t, o, 0>> }
    \cup { <<"out.saveAddress", b, t, o, a>> : a \in 1..Len(AddressesOf(Output(b, t, o))) }
    \cup ( IF v = "p005"
           THEN { <<"out.saveTransactionToOutput", b, t, o, 0>> }
                \cup { <<"out.saveAddressToOutput", b, t, o, a>> :
                          a \in 1..Len(AddressesOf(Output(b, t, o))) }
           ELSE {} )

TransactionOps(v, b, t) ==
    { <<"saveTransaction", b, t, 0, 0>> }
    \cup UNION { InputOps(v, b, t, i) : i \in 1..Len(Vin(b, t)) }
    \cup UNION { OutputOps(v, b, t, o) : o \in 1..Len(Vout(b, t)) }

BlockOps(v, b) ==
    { <<"saveBlock", b, 0, 0, 0>> } \cup UNION { TransactionOps(v, b, t) : t \in 1..NumTx(b) }

\* All operations of a run of index.js, and of part_005.
ix_Ops == UNION { BlockOps("index", b) : b \in Heights \cup {ForkBlock} }

p5_Ops == UNION { BlockOps("p005", b) : b \in Heights }

OpsOf(v) == IF v = "p005" THEN p5_Ops ELSE ix_Ops


(***************************************************************************)
(* Amounts are exact fractions <<numerator, denominator>> in lowest terms, *)
(* so that halving a subsidy loses nothing.                                *)
(***************************************************************************)
Coins(n) == <<n, 1>>

Half(q) == IF q[1] % 2 = 0 THEN <<q[1] \div 2, q[2]>> ELSE <<q[1], 2 * q[2]>>

\* index.js: halves above 210000.
RECURSIVE ix_getBlockSubsidy(_, _)
ix_getBlockSubsidy(height, subsidy) ==
    IF height > 210000
    THEN ix_getBlockSubsidy(height - 210000, Half(subsidy))
    ELSE subsidy

\* part_005: halves from 210000 on.
RECURSIVE p5_getBlockSubsidy(_, _)
p5_getBlockSubsidy(height, subsidy) ==
    IF height >= 210000
    THEN p5_getBlockSubsidy(height - 210000, Half(subsidy))
    ELSE subsidy

(***************************************************************************)
(* The request an operation sends to storage: its type ("save": the       *)
(* collection's save, followed by a replace when the key exists and        *)
(* overwriting is permitted; "document": a read by key; "upsert": the      *)
(* UPSERT query), its collection, and its document or key.                 *)
(***************************************************************************)
\* An input taken to spend an output of its own transaction.
InputOutputId_ofSpender(b, t, i) ==
    IF IsCoinbase(Input(b, t, i))
    THEN OutputId(TxId(b, t), "coinbase")
    ELSE OutputId(TxId(b, t), ToString(Input(b, t, i).vout))

\* The spent output an input names: `${transaction.txid}:coinbase` or
\* `${input.txid}:${input.vout}`.
InputOutputId(b, t, i) ==
    IF IsCoinbase(Input(b, t, i))
    THEN OutputId(TxId(b, t), "coinbase")
    ELSE OutputId(Input(b, t, i).txid, ToString(Input(b, t, i).vout))

BlockDocument(b) ==
    [ _key |-> Block(b).hash, height |-> Block(b).height, time |-> Block(b).time,
      tx |-> [ t \in 1..NumTx(b) |-> Block(b).tx[t].txid ] ]

\* index.js
ix_Request(op) ==
    LET b == op[2]
        t == op[3]
        n == op[4]
        txid == TxId(b, t)
    IN  CASE op[1] = "in.saveOutput" ->
               [ type |-> "save", col |-> OUTPUTS, mayOverwrite |-> TRUE,
                 doc |-> [ _key |-> OutputId(txid, "coinbase"),
                           value |-> ix_getBlockSubsidy(Block(b).height, Coins(50)) ] ]
          [] op[1] = "in.getDocument" ->
               [ type |-> "document", col |-> OUTPUTS, mayOverwrite |-> TRUE,
                 doc |-> [ _key |-> InputOutputId(b, t, n) ] ]
          [] op[1] = "in.saveEdge" ->
               [ type |-> "save", col |-> OUTPUTS_SPENT_IN, mayOverwrite |-> TRUE,
                 doc |-> [ _key |-> InputOutputId(b, t, n),
                           _from |-> <<OUTPUTS, InputOutputId(b, t, n)>>,
                           _to |-> <<TRANSACTIONS, txid>> ] ]
          [] op[1] = "out.saveAddress" ->
               [ type |-> "upsert", col |-> ADDRESSES, mayOverwrite |-> TRUE,
                 doc |-> [ _key |-> AddressesOf(Output(b, t, n))[op[5]],
                           outputs |-> << OutputId(txid, ToString(Output(b, t, n).n)) >> ] ]
          [] op[1] = "out.saveOutput" ->
               [ type |-> "save", col |-> OUTPUTS, mayOverwrite |-> TRUE,
                 doc |-> [ _key |-> OutputId(txid, ToString(Output(b, t, n).n)),
                           value |-> Coins(Output(b, t, n).value) ] ]
          [] op[1] = "saveTransaction" ->
               [ type |-> "save", col |-> TRANSACTIONS, mayOverwrite |-> TRUE,
                 doc |-> [ _key |-> txid, blockhash |-> Block(b).hash ] ]
          [] op[1] = "saveBlock" ->
               [ type |-> "save", col |-> BLOCKS, mayOverwrite |-> TRUE,
                 doc |-> BlockDocument(b) ]

\* part_005: the edges carry no _key; the address is saved with
\* dontOverwrite = true; the transaction document is the key alone.
p5_Request(op) ==
    LET b == op[2]
        t == op[3]
        n == op[4]
        txid == TxId(b, t)
    IN  CASE op[1] = "in.saveOutput" ->
               [ type |-> "save", col |-> OUTPUTS, mayOverwrite |-> TRUE,
                 doc |-> [ _key |-> OutputId(txid, "coinbase"),
                           value |-> p5_getBlockSubsidy(Block(b).height, Coins(50)) ] ]
          [] op[1] = "in.getDocument" ->
               [ type |-> "document", col |-> OUTPUTS, mayOverwrite |-> TRUE,
                 doc |-> [ _key |-> InputOutputId(b, t, n) ] ]
          [] op[1] = "in.saveEdge" ->
               [ type |-> "save", col |-> OUTPUTS_TO_TRANSACTIONS, mayOverwrite |-> TRUE,
                 doc |-> [ _from |-> <<OUTPUTS, InputOutputId(b, t, n)>>,
                           _to |-> <<TRANSACTIONS, txid>> ] ]
          [] op[1] = "out.saveOutput" ->
               [ type |-> "save", col |-> OUTPUTS, mayOverwrite |-> TRUE,
                 doc |-> [ _key |-> OutputId(txid, ToString(Output(b, t, n).n)),
                           value |-> Coins(Output(b, t, n).value) ] ]
          [] op[1] = "out.saveTransactionToOutput" ->
               [ type |-> "save", col |-> TRANSACTIONS_TO_OUTPUTS, mayOverwrite |-> TRUE,
                 doc |-> [ _from |-> <<TRANSACTIONS, txid>>,
                           _to |-> <<OUTPUTS, OutputId(txid, ToString(Output(b, t, n).n))>> ] ]
          [] op[1] = "out.saveAddress" ->
               [ type |-> "save", col |-> ADDRESSES, mayOverwrite |-> FALSE,
                 doc |-> [ _key |-> AddressesOf(Output(b, t, n))[op[5]] ] ]
          [] op[1] = "out.saveAddressToOutput" ->
               [ type |-> "save", col |-> ADDRESSES_TO_OUTPUTS, mayOverwrite |-> TRUE,
                 doc |-> [ _from |-> <<ADDRESSES, AddressesOf(Output(b, t, n))[op[5]]>>,
                           _to |-> <<OUTPUTS, OutputId(txid, ToString(Output(b, t, n).n))>> ] ]
          [] op[1] = "saveTransaction" ->
               [ type |-> "save", col |-> TRANSACTIONS, mayOverwrite |-> TRUE,
                 doc |-> [ _key |-> txid ] ]
          [] op[1] = "saveBlock" ->
               [ type |-> "save", col |-> BLOCKS, mayOverwrite |-> TRUE,
                 doc |-> BlockDocument(b) ]

ix_Requests == [ op \in ix_Ops |-> ix_Request(op) ]

p5_Requests == [ op \in p5_Ops |-> p5_Request(op) ]

Request(v, op) == IF v = "p005" THEN p5_Requests[op] ELSE ix_Requests[op]

(***************************************************************************)
(* Outcomes.  r maps every operation to its outcome so far:                *)
(*   "none"      not started;                                              *)
(*   "sent"      sent to storage, not answered;                            *)
(*   "exists"    the save was answered "unique constraint violated" and    *)
(*               the replace is now on its way;                            *)
(*   "saved", "replaced", "upserted", "found", "notfound"  answered;       *)
(*   "kept"      part_005's saveAddress: the address existed, the error    *)
(*               was caught;                                               *)
(*   "threw"     the operation rejected: the key exists and overwriting    *)
(*               is not permitted, or a caught error was thrown again.     *)
(***************************************************************************)
Ok(r, op) == r[op] \in {"saved", "replaced", "upserted", "found", "kept"}

Failed(r, op) == r[op] = "threw"

Answered(r, op) == r[op] \notin {"none", "sent", "exists"}

\* processBlock(b) has been called.
BlockStarted(hd, b) == \E k \in 1..Len(hd) : hd[k] = b

\* map(func, list, ...): element i is started at once with --async or when it
\* is the first; otherwise when the element before it has returned.
mapStarts(async, i, previousReturned) == async \/ i = 1 \/ previousReturned


(***************************************************************************)
(* The three errors modules.  MyError wraps the storage error; what its    *)
(* code property is, and which codes arangoErrors names, differ:           *)
(*   "errors.js"  sets no code and names neither not-found error;          *)
(*   "part_003"   code is errorNum for a storage error;                    *)
(*   "part_002"   code is the wrapped error's code (the HTTP status).      *)
(***************************************************************************)
ErrorsModules == { "errors.js", "part_003", "part_002" }

ERROR_HTTP_NOT_FOUND == 404

ERROR_ARANGO_DOCUMENT_NOT_FOUND == 1202

ERROR_ARANGO_UNIQUE_CONSTRAINT_VIOLATED == 1210

\* The storage errors the model meets.
UniqueConstraintViolated ==
    [ isArangoError |-> TRUE, errorNum |-> ERROR_ARANGO_UNIQUE_CONSTRAINT_VIOLATED,
      code |-> 409 ]

DocumentNotFound ==
    [ isArangoError |-> TRUE, errorNum |-> ERROR_ARANGO_DOCUMENT_NOT_FOUND,
      code |-> ERROR_HTTP_NOT_FOUND ]

\* new MyError(message, {error}).code; -1 stands for undefined.
MyError_code(module, error) ==
    CASE module = "errors.js" -> -1
      [] module = "part_003"  -> IF error.isArangoError THEN error.errorNum ELSE error.code
      [] module = "part_002"  -> error.code

\* Does arangoErrors name the two not-found errors?  Reading .code of a name
\* it lacks throws a TypeError.
NamesNotFound(module) == module # "errors.js"

\* processInput's catch: TRUE when the error is taken for "not found" (the
\* input is skipped with a warning); FALSE when an error leaves the catch.
CaughtAsNotFound(module, error) ==
    /\ NamesNotFound(module)
    /\ MyError_code(module, error) \in { ERROR_ARANGO_DOCUMENT_NOT_FOUND, ERROR_HTTP_NOT_FOUND }

\* part_005 saveAddress's catch: TRUE when the error is swallowed.
CaughtAsExisting(module, error) ==
    MyError_code(module, error) = ERROR_ARANGO_UNIQUE_CONSTRAINT_VIOLATED

\* A processTransaction that is taken to have returned from the start.
ix_TransactionDone_atOnce(r, b, t) == TRUE

(***************************************************************************)
(* index.js: what has started and what has returned, read off the          *)
(* outcomes r and the blocks hd handed to processBlock so far.             *)
(***************************************************************************)
ix_TransactionDone(r, b, t) == Ok(r, <<"saveTransaction", b, t, 0, 0>>)

ix_TransactionStarted(r, hd, b, t) ==
    /\ BlockStarted(hd, b)
    /\ mapStarts(ASYNC, t, t > 1 /\ ix_TransactionDone(r, b, t - 1))

\* processInput returned: the edge is saved, or the output was not found.
ix_InputDone(r, b, t, i) ==
    \/ Ok(r, <<"in.saveEdge", b, t, i, 0>>)
    \/ /\ ~IsCoinbase(Input(b, t, i))
       /\ r[<<"in.getDocument", b, t, i, 0>>] = "notfound"

ix_InputStarted(r, hd, b, t, i) ==
    /\ ix_TransactionStarted(r, hd, b, t)
    /\ mapStarts(ASYNC, i, i > 1 /\ ix_InputDone(r, b, t, i - 1))

ix_InputsDone(r, b, t) == \A i \in 1..Len(Vin(b, t)) : ix_InputDone(r, b, t, i)

\* processOutput returned: it awaits saveOutput, not the address writes.
ix_OutputDone(r, b, t, o) == Ok(r, <<"out.saveOutput", b, t, o, 0>>)

ix_OutputStarted(r, hd, b, t, o) ==
    /\ ix_TransactionStarted(r, hd, b, t)
    /\ ix_InputsDone(r, b, t)
    /\ mapStarts(ASYNC, o, o > 1 /\ ix_OutputDone(r, b, t, o - 1))

ix_OutputsDone(r, b, t) == \A o \in 1..Len(Vout(b, t)) : ix_OutputDone(r, b, t, o)

\* Has the call that starts op been made?
ix_Issued(r, hd, op) ==
    LET b == op[2]
        t == op[3]
        n == op[4]
        a == op[5]
    IN  CASE op[1] \in {"in.saveOutput", "in.getDocument"} ->
               ix_InputStarted(r, hd, b, t, n)
          [] op[1] = "in.saveEdge" ->
               /\ ix_InputStarted(r, hd, b, t, n)
               /\ IF IsCoinbase(Input(b, t, n))
                  THEN Ok(r, <<"in.saveOutput", b, t, n, 0>>)
                  ELSE Ok(r, <<"in.getDocument", b, t, n, 0>>)
          [] op[1] = "out.saveAddress" ->
               /\ ix_OutputStarted(r, hd, b, t, n)
               /\ HasScript(Served(b, t, n))
               /\ mapStarts(ASYNC, a, a > 1 /\ Ok(r, <<"out.saveAddress", b, t, n, a - 1>>))
          [] op[1] = "out.saveOutput" ->
               /\ ix_OutputStarted(r, hd, b, t, n)
               /\ HasScript(Served(b, t, n))
          [] op[1] = "saveTransaction" ->
               /\ ix_TransactionStarted(r, hd, b, t)
               /\ ix_InputsDone(r, b, t)
               /\ ix_OutputsDone(r, b, t)
          [] op[1] = "saveBlock" ->
               /\ BlockStarted(hd, b)
               /\ \A u \in 1..NumTx(b) : ix_TransactionDone(r, b, u)

\* The operations processBlock waits for: all but the address writes.
ix_Awaited(op) == op[1] # "out.saveAddress"

ix_processBlockDone(r, b) == Ok(r, <<"saveBlock", b, 0, 0, 0>>)

\* processBlock(b) rejected: an awaited operation threw, or an output without
\* scriptPubKey was reached.
ix_processBlockFailed(r, hd, b) ==
    \/ \E op \in BlockOps("index", b) : ix_Awaited(op) /\ Failed(r, op)
    \/ \E t \in 1..NumTx(b) : \E o \in 1..Len(Vout(b, t)) :
          ix_OutputStarted(r, hd, b, t, o) /\ ~HasScript(Served(b, t, o))


(***************************************************************************)
(* part_005: the same, for the pipelined importer.  Its processTransaction *)
(* does not wait for its inputs, and the transaction, block and edge       *)
(* writes are started without being waited for.                            *)
(***************************************************************************)
p5_OutputDone(r, b, t, o) == Ok(r, <<"out.saveOutput", b, t, o, 0>>)

p5_OutputsDone(r, b, t) == \A o \in 1..Len(Vout(b, t)) : p5_OutputDone(r, b, t, o)

\* processTransaction returned: it awaits its outputs only.
p5_TransactionDone(r, b, t) == p5_OutputsDone(r, b, t)

p5_TransactionStarted(r, hd, b, t) ==
    /\ BlockStarted(hd, b)
    /\ mapStarts(ASYNC, t, t > 1 /\ p5_TransactionDone(r, b, t - 1))

\* processInput returned: at once for a coinbase input, after the read of
\* the spent output otherwise.
RECURSIVE p5_InputStarted(_, _, _, _, _)
p5_InputReturned(r, hd, b, t, i) ==
    /\ p5_InputStarted(r, hd, b, t, i)
    /\ IF IsCoinbase(Input(b, t, i))
       THEN TRUE
       ELSE r[<<"in.getDocument", b, t, i, 0>>] \in {"found", "notfound"}

p5_InputStarted(r, hd, b, t, i) ==
    /\ p5_TransactionStarted(r, hd, b, t)
    /\ mapStarts(ASYNC, i, i > 1 /\ p5_InputReturned(r, hd, b, t, i - 1))

p5_OutputStarted(r, hd, b, t, o) ==
    /\ p5_TransactionStarted(r, hd, b, t)
    /\ mapStarts(ASYNC, o, o > 1 /\ p5_OutputDone(r, b, t, o - 1))

\* saveAddress returned: the address was saved, or it existed and the error
\* was swallowed.
p5_AddressReturned(r, b, t, o, a) == Ok(r, <<"out.saveAddress", b, t, o, a>>)

p5_Issued(r, hd, op) ==
    LET b == op[2]
        t == op[3]
        n == op[4]
        a == op[5]
    IN  CASE op[1] \in {"in.saveOutput", "in.getDocument"} ->
               p5_InputStarted(r, hd, b, t, n)
          [] op[1] = "in.saveEdge" ->
               p5_InputReturned(r, hd, b, t, n)
          [] op[1] = "out.saveOutput" ->
               /\ p5_OutputStarted(r, hd, b, t, n)
               /\ HasScript(Served(b, t, n))
          [] op[1] = "out.saveTransactionToOutput" ->
               p5_OutputDone(r, b, t, n)
          [] op[1] = "out.saveAddress" ->
               /\ p5_OutputDone(r, b, t, n)
               /\ mapStarts(ASYNC, a, a > 1 /\ p5_AddressReturned(r, b, t, n, a - 1))
          [] op[1] = "out.saveAddressToOutput" ->
               p5_AddressReturned(r, b, t, n, a)
          [] op[1] = "saveTransaction" ->
               /\ p5_TransactionStarted(r, hd, b, t)
               /\ p5_TransactionDone(r, b, t)
          [] op[1] = "saveBlock" ->
               /\ BlockStarted(hd, b)
               /\ \A u \in 1..NumTx(b) : p5_TransactionDone(r, b, u)

\* The one operation processBlock waits for, through processTransaction and
\* processOutput: the output's save.
p5_Awaited(op) == op[1] = "out.saveOutput"

\* processBlock(b) resolved: every transaction returned (saveBlock is started
\* in the same step and not waited for).
p5_processBlockDone(r, b) == \A t \in 1..NumTx(b) : p5_TransactionDone(r, b, t)

p5_processBlockFailed(r, hd, b) ==
    \/ \E op \in BlockOps("p005", b) : p5_Awaited(op) /\ Failed(r, op)
    \/ \E t \in 1..NumTx(b) : \E o \in 1..Len(Vout(b, t)) :
          p5_OutputStarted(r, hd, b, t, o) /\ ~HasScript(Served(b, t, o))

(***************************************************************************)
(* Both importers.                                                         *)
(***************************************************************************)
Issued(r, hd, op) ==
    IF variant = "p005" THEN p5_Issued(r, hd, op) ELSE ix_Issued(r, hd, op)

\* The outcomes r with every operation marked "sent" whose call has been
\* made, the blocks hd having been handed to processBlock.
Issue(r, hd) ==
    [ op \in DOMAIN r |-> IF r[op] = "none" /\ Issued(r, hd, op) THEN "sent" ELSE r[op] ]

\* Sent to storage and not answered.
InFlight(op) == res[op] \in {"sent", "exists"}

\* Nothing in the importers limits the requests that stand unanswered at a
\* time; the model lets storage fall at most MaxInFlight requests behind: a
\* step that would leave more of them unanswered waits for earlier answers.
WithinCapacity ==
    Cardinality({ op \in DOMAIN res' : res'[op] \in {"sent", "exists"} }) <= MaxInFlight

processBlockDone(r, b) ==
    IF variant = "p005" THEN p5_processBlockDone(r, b) ELSE ix_processBlockDone(r, b)

processBlockFailed(r, hd, b) ==
    IF variant = "p005" THEN p5_processBlockFailed(r, hd, b) ELSE ix_processBlockFailed(r, hd, b)

\* A promise nobody waits for rejected: a dangling operation threw.
UnhandledRejection(r) ==
    \E op \in DOMAIN r :
       /\ Failed(r, op)
       /\ IF variant = "p005" THEN ~p5_Awaited(op) ELSE ~ix_Awaited(op)

\* The promise run() returns, and the error of an 'uncaughtException'.
RunPromise == <<"run", 0, 0, 0, 0>>

UncaughtException == <<"uncaughtException", 0, 0, 0, 0>>

\* The promise of processBlock(b).
BlockPromise(b) == <<"processBlock", b, 0, 0, 0>>

\* The rejected promises no handler is attached to, when the outcomes are r,
\* run() stands at p with blockHash bh and the blocks hd were handed over:
\* the promise of run() (nobody waits for it), the promise of a call nobody
\* waits for, and in part_005 the promise of the last processBlock call until
\* run() reaches its await (it never does when getBlock rejected first).
RejectedUnhandled(r, p, bh, hd) ==
    (IF p = "rejected" THEN {RunPromise} ELSE {})
    \cup { op \in DOMAIN r :
             /\ Failed(r, op)
             /\ IF variant = "p005" THEN ~p5_Awaited(op) ELSE ~ix_Awaited(op) }
    \cup (IF /\ variant = "p005"
             /\ hd # << >>
             /\ p = "iter" \/ (p = "rejected" /\ bh = Null)
          THEN IF p5_processBlockFailed(r, hd, hd[Len(hd)])
               THEN {BlockPromise(hd[Len(hd)])}
               ELSE {}
          ELSE {})

\* 'unhandledRejection': unhandledRejections.set(promise, error)
unhandledRejection(map, promises) == map \cup promises

\* A 'rejectionHandled' listener that deletes nothing.
rejectionHandled_ignored(map, promises) == map

\* 'rejectionHandled': unhandledRejections.delete(promise)
rejectionHandled(map, promises) == map \ promises

\* The promises node emits 'unhandledRejection' for in a step, and those
\* it emits 'rejectionHandled' for.
EmittedUnhandled ==
    RejectedUnhandled(res', pc', blockHash', handed')
        \ RejectedUnhandled(res, pc, blockHash, handed)

EmittedHandled ==
    RejectedUnhandled(res, pc, blockHash, handed)
        \ RejectedUnhandled(res', pc', blockHash', handed')

\* handleExceptions: the two listeners at work in a step of the run.
handleExceptions ==
    unhandledRejections' =
        rejectionHandled(unhandledRejection(unhandledRejections, EmittedUnhandled),
                         EmittedHandled)

\* blocksCounter++ follows the awaited saveDocument of saveBlock, and
\* transactionsCounter++ that of saveTransaction.
blocksCounter ==
    Cardinality({ op \in DOMAIN res : op[1] = "saveBlock" /\ Ok(res, op) })

transactionsCounter ==
    Cardinality({ op \in DOMAIN res : op[1] = "saveTransaction" /\ Ok(res, op) })


(***************************************************************************)
(* Storage, one document at a time.                                        *)
(***************************************************************************)
\* A replace that stores the new document beside the old one.
Replaced_keepsOld(bag, doc) == bag (+) SetToBag({doc})

\* collection.replace(key, doc)
Replaced(bag, doc) ==
    LET old == { d \in BagToSet(bag) : HasKey(d) /\ d._key = doc._key }
    IN  (bag (-) SetToBag(old)) (+) SetToBag({doc})

\* UPSERT { _key } INSERT doc UPDATE doc: an existing document keeps the
\* attributes doc does not name and takes doc's values for the others.
Upserted(bag, doc) ==
    IF KeyIn(bag, doc._key)
    THEN LET old == CHOOSE d \in BagToSet(bag) : HasKey(d) /\ d._key = doc._key
         IN  Replaced(bag, [ f \in DOMAIN old \cup DOMAIN doc |->
                               IF f \in DOMAIN doc THEN doc[f] ELSE old[f] ])
    ELSE bag (+) SetToBag({doc})

\* FOR b IN blocks SORT b.height DESC LIMIT 1 RETURN b
LastBlock ==
    CHOOSE d \in BagToSet(stored[BLOCKS]) :
        \A e \in BagToSet(stored[BLOCKS]) : e.height <= d.height

\* A resume height taken from the stored block of least height.
getLastBlockHeight_lowest ==
    IF stored[BLOCKS] # EmptyBag
    THEN (CHOOSE d \in BagToSet(stored[BLOCKS]) :
            \A e \in BagToSet(stored[BLOCKS]) : d.height <= e.height).height
    ELSE 1

\* The height run() resumes from: that of the stored block of greatest
\* height, or 1 when no block is stored.
getLastBlockHeight ==
    IF stored[BLOCKS] # EmptyBag THEN LastBlock.height ELSE 1

\* The block a hash names.
HeightOf(hash) == hash[2]

(***************************************************************************)
(* What a finished earlier run over blocks 1..H left in storage.           *)
(***************************************************************************)
OpBefore(o1, o2) ==
    \/ o1[2] < o2[2]
    \/ o1[2] = o2[2] /\ o1[3] < o2[3]
    \/ o1[2] = o2[2] /\ o1[3] = o2[3] /\ o1[4] < o2[4]
    \/ o1[2] = o2[2] /\ o1[3] = o2[3] /\ o1[4] = o2[4] /\ o1[5] < o2[5]

PriorOps(v, H) == UNION { BlockOps(v, b) : b \in 1..H }

\* The writes that survive: of several writes of one key, the last.
PriorWrites(v, H, col) ==
    { op \in PriorOps(v, H) :
        /\ Request(v, op).type # "document"
        /\ Request(v, op).col = col
        /\ ~\E later \in PriorOps(v, H) :
              /\ OpBefore(op, later)
              /\ Request(v, later).type # "document"
              /\ Request(v, later).col = col
              /\ HasKey(Request(v, op).doc)
              /\ HasKey(Request(v, later).doc)
              /\ Request(v, later).doc._key = Request(v, op).doc._key }

PriorStore(v, H) ==
    [ col \in AllCollections |->
        SetToBag({ Request(v, op).doc : op \in PriorWrites(v, H, col) }) ]

(***************************************************************************)
(* run(): the driver loop of index.js and of part_005.                     *)
(***************************************************************************)
cfgVars == <<variant, ASYNC, dontOverwrite, clean, errors, noScript, tty, fork>>

\* What the 'exit' listener leaves behind.
exitVars == <<exitCode, reported, summary>>

Running == variant \in {"index", "p005"} /\ pc \notin {"none", "exited"}

RunInit(v) ==
    /\ GatewayInit
    /\ NoSaveDocument
    /\ NoSubsidy
    /\ NoMap
    /\ variant = v
    /\ ASYNC \in BOOLEAN
    /\ dontOverwrite \in BOOLEAN
    /\ clean \in BOOLEAN
    /\ errors \in ErrorsModules
    /\ tty \in BOOLEAN
    /\ fork = FALSE
    /\ \E H \in 0..ChainLen :
          /\ stored = PriorStore(v, H)
          /\ noScript \in {<<0, 0>>} \cup { <<b, NumTx(b)>> : b \in (H + 1)..ChainLen }
    /\ pc = "start"
    /\ blockHash = Null
    /\ block = 0
    /\ rpc = NoRpc
    /\ stop = FALSE
    /\ exitCode = -1
    /\ unhandledRejections = {}
    /\ reported = {}
    /\ summary = FALSE
    /\ handed = << >>
    /\ res = [ op \in OpsOf(v) |-> "none" ]

\* A truncate that removes nothing.
truncate_nothing(st) == st

\* db.truncate(): every collection of the database is emptied.
truncate(st) == [ col \in DOMAIN st |-> EmptyBag ]

\* if (commander.clean) { await db.truncate(); } and nothing else.
CleanDatabase ==
    /\ Running
    /\ pc = "start"
    /\ clean
    /\ stored' = truncate(stored)
    /\ pc' = "ended"
    /\ UNCHANGED <<gwVars, cfgVars, blockHash, block, rpc, stop, exitVars, unhandledRejections, handed, res>>

\* A run() that starts from the successor of the stored block of greatest
\* height.
StartHash_ofSuccessor ==
    IF stored[BLOCKS] # EmptyBag THEN NextHashOrNull(LastBlock.height) ELSE NodeBlockHash(1)

\* The hash run() starts from: the key of the stored block of greatest
\* height, or the hash of block 1 when no block is stored.
StartHash ==
    IF stored[BLOCKS] # EmptyBag THEN LastBlock._key ELSE NodeBlockHash(1)

\* A loop that tests blockHash only.
ix_LoopTest_ignoresStop(h) ==
    /\ blockHash' = h
    /\ IF h # Null
       THEN pc' = "getBlock" /\ rpc' = h
       ELSE pc' = "ended" /\ rpc' = NoRpc

\* index.js: while (!stop && blockHash), entered with blockHash = h.
ix_LoopTest(h) ==
    /\ blockHash' = h
    /\ IF ~stop /\ h # Null
       THEN pc' = "getBlock" /\ rpc' = h
       ELSE pc' = "ended" /\ rpc' = NoRpc

ix_Bootstrap ==
    /\ Running
    /\ variant = "index"
    /\ pc = "start"
    /\ ~clean
    /\ ix_LoopTest(StartHash)
    /\ block' = getLastBlockHeight
    /\ UNCHANGED <<gwVars, stored, cfgVars, stop, exitVars, unhandledRejections, handed, res>>

\* block = await client.getBlock(blockHash, 2); processBlock(block) is called.
ix_GetBlockAnswered ==
    /\ Running
    /\ variant = "index"
    /\ pc = "getBlock"
    /\ block' = HeightOf(rpc)
    /\ handed' = Append(handed, HeightOf(rpc))
    /\ pc' = "processBlock"
    /\ rpc' = NoRpc
    /\ res' = Issue(res, handed')
    /\ UNCHANGED <<gwVars, stored, cfgVars, blockHash, stop, exitVars, unhandledRejections>>
    /\ WithinCapacity

\* index.js, after storage answered and the outcomes are r: when
\* processBlock(block) has returned, blockHash = block.nextblockhash or null
\* and the loop tests again; when it rejected, run() rejects.
ix_Continue(r) ==
    IF pc = "processBlock" /\ ix_processBlockDone(r, block)
    THEN /\ ix_LoopTest(NextHashOrNull(block))
         /\ UNCHANGED <<block, handed>>
    ELSE IF pc = "processBlock" /\ ix_processBlockFailed(r, handed, block)
    THEN /\ pc' = "rejected"
         /\ UNCHANGED <<blockHash, block, rpc, handed>>
    ELSE UNCHANGED <<pc, blockHash, block, rpc, handed>>


\* part_005: while (!stop && blockHash), entered with blockHash = h and the
\* block b already fetched: processBlock(b) is called and not waited for,
\* blockHash becomes b's successor or null, and that hash is asked of the
\* node whatever it is.
p5_LoopTest(h, b) ==
    IF ~stop /\ h # Null
    THEN /\ handed' = Append(handed, b)
         /\ blockHash' = NextHashOrNull(b)
         /\ rpc' = NextHashOrNull(b)
         /\ pc' = "iter"
    ELSE /\ pc' = "ended"
         /\ rpc' = NoRpc
         /\ blockHash' = h
         /\ handed' = handed

\* The promise of the processBlock call made last.
CurrentBlock == handed[Len(handed)]

p5_Bootstrap ==
    /\ Running
    /\ variant = "p005"
    /\ pc = "start"
    /\ ~clean
    /\ blockHash' = StartHash
    /\ rpc' = StartHash
    /\ pc' = "getFirst"
    /\ UNCHANGED <<gwVars, stored, cfgVars, block, stop, exitVars, unhandledRejections, handed, res>>

\* await blockProcessedPromise, with the outcomes r and the block b fetched.
p5_AwaitBlock(r, b) ==
    IF p5_processBlockDone(r, CurrentBlock)
    THEN p5_LoopTest(blockHash, b)
    ELSE IF p5_processBlockFailed(r, handed, CurrentBlock)
    THEN /\ pc' = "rejected"
         /\ rpc' = NoRpc
         /\ UNCHANGED <<blockHash, handed>>
    ELSE /\ pc' = "awaitBlock"
         /\ rpc' = NoRpc
         /\ UNCHANGED <<blockHash, handed>>

\* The node answers getBlock: with the block, or with an error when the
\* hash is null.
p5_GetBlockAnswered ==
    /\ Running
    /\ variant = "p005"
    /\ pc \in {"getFirst", "iter"}
    /\ IF rpc = Null
       THEN /\ pc' = "rejected"
            /\ rpc' = NoRpc
            /\ UNCHANGED <<blockHash, block, handed>>
       ELSE /\ block' = HeightOf(rpc)
            /\ IF pc = "getFirst"
               THEN p5_LoopTest(blockHash, HeightOf(rpc))
               ELSE p5_AwaitBlock(res, HeightOf(rpc))
    /\ res' = Issue(res, handed')
    /\ UNCHANGED <<gwVars, stored, cfgVars, stop, exitVars>>
    /\ handleExceptions
    /\ WithinCapacity

p5_Continue(r) ==
    IF pc = "awaitBlock"
    THEN /\ p5_AwaitBlock(r, block)
         /\ block' = block
    ELSE UNCHANGED <<pc, blockHash, block, rpc, handed>>

\* The outcomes become r, run() goes on as far as it can, and the calls this
\* leads to are made.
Settle(r) ==
    /\ IF variant = "p005" THEN p5_Continue(r) ELSE ix_Continue(r)
    /\ res' = Issue(r, handed')
    /\ UNCHANGED <<gwVars, cfgVars, stop, exitVars>>
    /\ handleExceptions
    /\ WithinCapacity

\* A saveDocument that never replaces.
OnExisting_throws(q) == "threw"

\* saveDocument's answer to "unique constraint violated": replace, unless
\* overwriting is off; part_005's saveAddress catches what is thrown then.
OnExisting(q) ==
    IF q.mayOverwrite /\ ~dontOverwrite THEN "exists"
    ELSE IF ~q.mayOverwrite /\ CaughtAsExisting(errors, UniqueConstraintViolated) THEN "kept"
    ELSE "threw"

\* Storage answers collection.save(document).
SaveAnswered ==
    /\ Running
    /\ \E op \in OpsOf(variant) :
          LET q == Request(variant, op)
          IN  /\ res[op] = "sent"
              /\ q.type = "save"
              /\ IF HasKey(q.doc) /\ KeyIn(stored[q.col], q.doc._key)
                 THEN /\ stored' = stored
                      /\ Settle([ res EXCEPT ![op] = OnExisting(q) ])
                 ELSE /\ stored' = [ stored EXCEPT ![q.col] = @ (+) SetToBag({q.doc}) ]
                      /\ Settle([ res EXCEPT ![op] = "saved" ])

\* Storage answers collection.replace(key, document).
ReplaceAnswered ==
    /\ Running
    /\ \E op \in OpsOf(variant) :
          LET q == Request(variant, op)
          IN  /\ res[op] = "exists"
              /\ stored' = [ stored EXCEPT ![q.col] = Replaced(@, q.doc) ]
              /\ Settle([ res EXCEPT ![op] = "replaced" ])

\* Storage answers collection.document(key).
DocumentAnswered ==
    /\ Running
    /\ \E op \in OpsOf(variant) :
          LET q == Request(variant, op)
          IN  /\ res[op] = "sent"
              /\ q.type = "document"
              /\ stored' = stored
              /\ Settle([ res EXCEPT ![op] =
                            IF KeyIn(stored[q.col], q.doc._key) THEN "found"
                            ELSE IF CaughtAsNotFound(errors, DocumentNotFound) THEN "notfound"
                            ELSE "threw" ])

\* Storage answers the UPSERT query of index.js saveAddress.
UpsertAnswered ==
    /\ Running
    /\ \E op \in OpsOf(variant) :
          LET q == Request(variant, op)
          IN  /\ res[op] = "sent"
              /\ q.type = "upsert"
              /\ stored' = [ stored EXCEPT ![q.col] = Upserted(@, q.doc) ]
              /\ Settle([ res EXCEPT ![op] = "upserted" ])

\* An 'exit' listener that leaves the exit code as it is.
handleExit_keepsCode(code) == code

\* handleExit's exit code: an entry of unhandledRejections turns 0 into 1.
handleExit(code) ==
    IF code = 0 /\ unhandledRejections # {} THEN 1 ELSE code

\* handleExit logs the summary line when a block or a transaction was
\* counted, unless its process.exit(1) ended the process before that line.
handleExit_summary(code) ==
    /\ ~(code = 0 /\ unhandledRejections # {})
    /\ blocksCounter + transactionsCounter > 0

\* The process exits with the code asked for, or with 0 of itself: the
\* 'exit' listener logs every entry of unhandledRejections.
Exit(code, logged) ==
    /\ pc' = "exited"
    /\ reported' = logged \cup unhandledRejections
    /\ exitCode' = handleExit(code)
    /\ summary' = handleExit_summary(code)

\* A SIGINT handler that exits at the first signal.
handleInt_exitsAtOnce ==
    /\ Running
    /\ Exit(0, {})
    /\ stop' = TRUE
    /\ UNCHANGED <<gwVars, stored, cfgVars, blockHash, block, rpc, handed, res,
                   unhandledRejections>>

\* SIGINT: the first latches stop, a later one exits at once.  On a standard
\* output that is not a terminal process.stdout.clearLine is undefined: the
\* call throws, and the 'uncaughtException' listener logs the error and
\* calls process.exit(1).
handleInt ==
    /\ Running
    /\ IF ~tty
       THEN /\ Exit(1, {UncaughtException})
            /\ stop' = stop
       ELSE IF stop
       THEN /\ Exit(0, {})
            /\ stop' = stop
       ELSE /\ stop' = TRUE
            /\ UNCHANGED <<pc, exitVars>>
    /\ UNCHANGED <<gwVars, stored, cfgVars, blockHash, block, rpc, handed, res,
                   unhandledRejections>>

\* Nothing is left to wait for: node exits with code 0 of itself.
EventLoopEmpty ==
    /\ Running
    /\ pc \in {"ended", "rejected"}
    /\ rpc = NoRpc
    /\ \A op \in OpsOf(variant) : ~InFlight(op)
    /\ Exit(0, {})
    /\ UNCHANGED <<gwVars, stored, cfgVars, blockHash, block, rpc, stop, handed, res,
                   unhandledRejections>>

NextIndex ==
    \/ CleanDatabase
    \/ ix_Bootstrap
    \/ ix_GetBlockAnswered
    \/ SaveAnswered
    \/ ReplaceAnswered
    \/ DocumentAnswered
    \/ UpsertAnswered
    \/ handleInt
    \/ EventLoopEmpty

SpecIndex == RunInit("index") /\ [][NextIndex]_vars

\* index.js against a node that serves the two-block chain, on an empty
\* database or on one an earlier run left after block 1.
ForkInit ==
    /\ GatewayInit
    /\ NoSaveDocument
    /\ NoSubsidy
    /\ NoMap
    /\ variant = "index"
    /\ ASYNC \in BOOLEAN
    /\ dontOverwrite \in BOOLEAN
    /\ clean \in BOOLEAN
    /\ errors \in ErrorsModules
    /\ tty \in BOOLEAN
    /\ fork = TRUE
    /\ \E H \in 0..1 : stored = PriorStore("index", H)
    /\ noScript \in {<<0, 0>>, <<ForkBlock, 1>>}
    /\ pc = "start"
    /\ blockHash = Null
    /\ block = 0
    /\ rpc = NoRpc
    /\ stop = FALSE
    /\ exitCode = -1
    /\ unhandledRejections = {}
    /\ reported = {}
    /\ summary = FALSE
    /\ handed = << >>
    /\ res = [ op \in ix_Ops |-> "none" ]

SpecFork == ForkInit /\ [][NextIndex]_vars

Next005 ==
    \/ CleanDatabase
    \/ p5_Bootstrap
    \/ p5_GetBlockAnswered
    \/ SaveAnswered
    \/ ReplaceAnswered
    \/ DocumentAnswered
    \/ handleInt
    \/ EventLoopEmpty

Spec005 == RunInit("p005") /\ [][Next005]_vars

\* Either importer.
RunInitAny == RunInit("index") \/ RunInit("p005")

NextRun ==
    \/ CleanDatabase
    \/ ix_Bootstrap
    \/ ix_GetBlockAnswered
    \/ p5_Bootstrap
    \/ p5_GetBlockAnswered
    \/ SaveAnswered
    \/ ReplaceAnswered
    \/ DocumentAnswered
    \/ UpsertAnswered
    \/ handleInt
    \/ EventLoopEmpty

SpecRun == RunInitAny /\ [][NextRun]_vars


(***************************************************************************)
(* Part 3.  One call of saveDocument(collection, document) for a keyed     *)
(* document, in src/index.js, src/unnamed/part_002 and                     *)
(* src/unnamed/part_004: _modifyCollection's attempts, storage's answers   *)
(* and what the caller of saveDocument gets.                               *)
(*                                                                         *)
(* Storage answers an attempt with "ok", with the write-conflict error     *)
(* ("conflict", errorNum 1200), with the unique-constraint error           *)
(* ("exists", errorNum 1210) or with any other error ("other").            *)
(***************************************************************************)
SdModules == { "index.js", "part_002", "part_004" }

Answers(op, k) ==
    {"conflict", "other"} \cup
    ( IF op = "save" THEN (IF k = "none" THEN {"ok"} ELSE {"exists"})
                     ELSE (IF k = "none" THEN {} ELSE {"ok"}) )

SaveDocumentInit ==
    /\ RunIdle
    /\ NoSubsidy
    /\ NoMap
    /\ sdModule \in SdModules
    /\ RETRIES \in 0..MaxRetries
    /\ DONT_OVERWRITE \in BOOLEAN
    /\ sdArg \in (IF sdModule = "part_002" THEN BOOLEAN ELSE {FALSE})
    /\ kept \in {"none", "old"}
    /\ sdPc = "attempt"
    /\ operation = "save"
    /\ left = RETRIES
    /\ answered = [ save |-> << >>, replace |-> << >> ]
    /\ outcome = "none"
    /\ cause = "none"

\* An overwrite whatever the flags say.
OverwritePermitted_always == TRUE

\* !commander.dontOverwrite, and in part_002 !dontOverwrite && !DONT_OVERWRITE.
OverwritePermitted ==
    IF sdModule = "part_002" THEN ~sdArg /\ ~DONT_OVERWRITE ELSE ~DONT_OVERWRITE

\* The retry branch of _modifyCollection calls _modifyCollection in part_002;
\* in index.js and part_004 it calls modifyCollection, a name no file defines.
RetryCallDefined(module) == module = "part_002"

\* throw new MyError(message, {error}) out of saveDocument.
End(message, error) ==
    /\ sdPc' = "done"
    /\ outcome' = message
    /\ cause' = error
    /\ UNCHANGED <<operation, left>>

\* A _replaceDocument that grants one retry more than the budget.
StartReplace_largerBudget ==
    /\ sdPc' = "attempt"
    /\ operation' = "replace"
    /\ left' = RETRIES + 1
    /\ UNCHANGED <<outcome, cause>>

\* _replaceDocument: _modifyCollection(retries, collection, 'replace', ...).
StartReplace ==
    /\ sdPc' = "attempt"
    /\ operation' = "replace"
    /\ left' = RETRIES
    /\ UNCHANGED <<outcome, cause>>

\* The catch blocks of saveDocument, entered with what _modifyCollection threw.
SaveDocumentCatch(error) ==
    IF operation = "replace"
    THEN End("Overwriting failed", error)
    ELSE IF error = "exists" /\ OverwritePermitted
         THEN IF sdModule = "part_004"
              THEN /\ sdPc' = "get"
                   /\ UNCHANGED <<operation, left, outcome, cause>>
              ELSE StartReplace
         ELSE End("Saving failed", error)

\* Storage answers collection.handle[operation](...args).
ModifyAnswered ==
    /\ sdPc = "attempt"
    /\ \E a \in Answers(operation, kept) :
          /\ answered' = [ answered EXCEPT ![operation] = Append(@, a) ]
          /\ IF a = "ok"
             THEN /\ kept' = "new"
                  /\ sdPc' = "done"
                  /\ outcome' = "returned"
                  /\ UNCHANGED <<operation, left, cause>>
             ELSE /\ kept' = kept
                  /\ IF a = "conflict" /\ left > 0
                     THEN /\ sdPc' = "yield"
                          /\ UNCHANGED <<operation, left, outcome, cause>>
                     ELSE SaveDocumentCatch(a)
    /\ UNCHANGED <<gwOwn, stored, runOwn, sdModule, RETRIES, DONT_OVERWRITE, sdArg>>

\* await setImmediatePromise() is over: the retry call is made.
Yielded ==
    /\ sdPc = "yield"
    /\ IF RetryCallDefined(sdModule)
       THEN /\ left' = left - 1
            /\ sdPc' = "attempt"
            /\ UNCHANGED <<operation, outcome, cause>>
       ELSE SaveDocumentCatch("ReferenceError")
    /\ UNCHANGED <<gwOwn, stored, runOwn, sdModule, RETRIES, DONT_OVERWRITE, sdArg, kept,
                   answered>>

\* part_004 reads the existing document before it overwrites it.
GetAnswered ==
    /\ sdPc = "get"
    /\ \/ StartReplace
       \/ End("Getting failed", "other")
    /\ UNCHANGED <<gwOwn, stored, runOwn, sdModule, RETRIES, DONT_OVERWRITE, sdArg, kept,
                   answered>>

NextDoc == ModifyAnswered \/ Yielded \/ GetAnswered

SpecDoc == SaveDocumentInit /\ [][NextDoc]_vars

(***************************************************************************)
(* Part 4.  One call of getBlockSubsidy.  The heights tried lie on both    *)
(* sides of every multiple of 210000 up to MaxHalvings of them.            *)
(***************************************************************************)
SbModules == {"index.js", "worker.js", "part_004", "part_005"}

SubsidyHeights ==
    { k * 210000 + d : k \in 0..MaxHalvings, d \in {0, 1, 209999} }

GetBlockSubsidyInit ==
    /\ RunIdle
    /\ NoSaveDocument
    /\ NoMap
    /\ sbModule \in SbModules
    /\ sbHeight \in SubsidyHeights
    /\ sbSubsidy = <<0, 0>>

\* getBlockSubsidy(height) returns: index.js and part_004 compare with >,
\* worker.js and part_005 with >=.
GetBlockSubsidyCall ==
    /\ sbModule \in SbModules
    /\ sbSubsidy = <<0, 0>>
    /\ sbSubsidy' = IF sbModule \in {"index.js", "part_004"}
                    THEN ix_getBlockSubsidy(sbHeight, Coins(50))
                    ELSE p5_getBlockSubsidy(sbHeight, Coins(50))
    /\ UNCHANGED <<gwOwn, docVars, mapVars, stored, sbModule, sbHeight>>
    /\ UNCHANGED <<variant, ASYNC, dontOverwrite, clean, errors, noScript, tty, fork, pc, blockHash,
                   block, rpc, stop, exitCode, unhandledRejections, reported, summary,
                   handed, res>>

NextSubsidy == GetBlockSubsidyCall

SpecSubsidy == GetBlockSubsidyInit /\ [][NextSubsidy]_vars

(***************************************************************************)
(* Part 5.  One call of map(processInput, transaction.vin, transaction,    *)
(* block).  An index argument is << >> when the call passes none          *)
(* (undefined) and <<i>> when it passes i.                                 *)
(***************************************************************************)
MpModules == {"index.js", "worker.js", "part_004", "part_005"}

RECURSIVE ListsUpTo(_)
ListsUpTo(n) ==
    IF n = 0 THEN { << >> }
    ELSE ListsUpTo(n - 1)
         \cup { Append(l, e) : l \in { m \in ListsUpTo(n - 1) : Len(m) = n - 1 },
                               e \in {"coinbase", "spend"} }

MapInit ==
    /\ RunIdle
    /\ NoSaveDocument
    /\ sbModule = "none" /\ sbHeight = 0 /\ sbSubsidy = <<0, 0>>
    /\ mpModule \in MpModules
    /\ mpAsync \in BOOLEAN
    /\ mpTx \in 0..1
    /\ mpList \in ListsUpTo(MaxList)
    /\ mpCalls = << >>
    /\ mpSettled = {}
    /\ mpWarned = {}
    /\ mpRet = << >>
    /\ mpPc = "running"

\* The index argument map passes to func for the element at index i: with
\* --async index.js, worker.js and part_005 pass it and part_004 does not;
\* without, index.js hands it to ret.push instead of func.
IndexArgument(module, async, i) ==
    IF module = "part_004" THEN << >>
    ELSE IF module = "index.js" /\ ~async THEN << >>
    ELSE <<i>>

\* if (input.hasOwnProperty('coinbase')) { if (index > 0) logger.warning(...) }:
\* undefined > 0 is false; processInput of part_004 has no such test.
Warns(module, element, index) ==
    IF module = "part_004" \/ element # "coinbase" \/ index = << >>
    THEN FALSE
    ELSE index[1] > 0

\* What func returns for an element, and a number as an entry of ret.
Result(element) == <<"result", element>>

Number(i) == <<"number", ToString(i)>>

\* What the sequential loop pushes when the call for index i returned:
\* index.js pushes the result and the index.
Pushed(module, element, i) ==
    IF module = "index.js" THEN << Result(element), Number(i) >> ELSE << Result(element) >>

\* func is called for the next element: at once for every element with
\* --async, after the call before it returned without.
MapCallsFunc ==
    /\ mpPc = "running"
    /\ Len(mpCalls) < Len(mpList)
    /\ mpAsync \/ mpSettled = 1..Len(mpCalls)
    /\ LET k == Len(mpCalls) + 1
           index == IndexArgument(mpModule, mpAsync, k - 1)
       IN  /\ mpCalls' = Append(mpCalls, [ element |-> mpList[k], index |-> index ])
           /\ mpWarned' = IF Warns(mpModule, mpList[k], index)
                           THEN mpWarned \cup {k} ELSE mpWarned
    /\ UNCHANGED <<mpModule, mpAsync, mpTx, mpList, mpSettled, mpRet, mpPc>>
    /\ UNCHANGED <<gwOwn, docVars, subVars, stored>>
    /\ UNCHANGED <<variant, ASYNC, dontOverwrite, clean, errors, noScript, tty, fork, pc, blockHash,
                   block, rpc, stop, exitCode, unhandledRejections, reported, summary,
                   handed, res>>

\* A call of func returns: with --async in any order once all are made
\* (list.map makes them before anything is awaited), without it the one
\* call outstanding, whose result ret.push takes.
MapFuncReturns ==
    /\ mpPc = "running"
    /\ \E k \in 1..Len(mpCalls) :
          /\ k \notin mpSettled
          /\ mpAsync => Len(mpCalls) = Len(mpList)
          /\ mpSettled' = mpSettled \cup {k}
          /\ mpRet' = IF mpAsync THEN mpRet
                      ELSE mpRet \o Pushed(mpModule, mpList[k], k - 1)
    /\ UNCHANGED <<mpModule, mpAsync, mpTx, mpList, mpCalls, mpWarned, mpPc>>
    /\ UNCHANGED <<gwOwn, docVars, subVars, stored>>
    /\ UNCHANGED <<variant, ASYNC, dontOverwrite, clean, errors, noScript, tty, fork, pc, blockHash,
                   block, rpc, stop, exitCode, unhandledRejections, reported, summary,
                   handed, res>>

\* return ret: with --async ret is what Promise.all resolved to, the results
\* in the order of the elements.
MapReturns ==
    /\ mpPc = "running"
    /\ Len(mpCalls) = Len(mpList)
    /\ mpSettled = 1..Len(mpList)
    /\ mpRet' = IF mpAsync THEN [ k \in 1..Len(mpList) |-> Result(mpList[k]) ] ELSE mpRet
    /\ mpPc' = "returned"
    /\ UNCHANGED <<mpModule, mpAsync, mpTx, mpList, mpCalls, mpSettled, mpWarned>>
    /\ UNCHANGED <<gwOwn, docVars, subVars, stored>>
    /\ UNCHANGED <<variant, ASYNC, dontOverwrite, clean, errors, noScript, tty, fork, pc, blockHash,
                   block, rpc, stop, exitCode, unhandledRejections, reported, summary,
                   handed, res>>

NextMap == MapCallsFunc \/ MapFuncReturns \/ MapReturns

SpecMap == MapInit /\ [][NextMap]_vars

(***************************************************************************)
(* Part 6.  One single-document operation and its retry after a write      *)
(* conflict: _modifyCollection(retries, collection, operation, ...args) of *)
(* src/index.js, src/unnamed/part_002, src/unnamed/part_004 and            *)
(* src/unnamed/part_005 (lines 490-499), and saveDocument and              *)
(* replaceDocument of the older importer in src/unnamed/part_005 (lines    *)
(* 901-925), which retry once.  operation is what the caller asked for;    *)
(* answered records each attempt under the operation storage was sent.     *)
(***************************************************************************)
OlderImporter == "part_005 (901-925)"

RtModules == { "index.js", "part_002", "part_004", "part_005", OlderImporter }

RetryInit ==
    /\ RunIdle
    /\ NoSubsidy
    /\ NoMap
    /\ sdModule \in RtModules
    /\ RETRIES \in (IF sdModule = OlderImporter THEN {1} ELSE 0..MaxRetries)
    /\ DONT_OVERWRITE = FALSE
    /\ sdArg = FALSE
    /\ kept \in {"none", "old"}
    /\ sdPc = "attempt"
    /\ operation \in {"save", "replace"}
    /\ left = RETRIES
    /\ answered = [ save |-> << >>, replace |-> << >> ]
    /\ outcome = "none"
    /\ cause = "none"

\* What the retry branch calls: _modifyCollection with the same operation and
\* arguments; modifyCollection, which no file defines; or, in the older
\* importer, db.collection(collection).save(document) in saveDocument and in
\* replaceDocument alike.
RetryCall(module, op) ==
    IF module \in {"part_002", "part_005"} THEN op
    ELSE IF module = OlderImporter THEN "save"
    ELSE "ReferenceError"

\* The operation the attempt now pending sends to storage.
Attempted ==
    IF left < RETRIES THEN RetryCall(sdModule, operation) ELSE operation

\* Storage answers the attempt.  The older importer has no catch around its
\* second attempt; there left = 0 stands for that.
AttemptAnswered ==
    /\ sdPc = "attempt"
    /\ \E a \in Answers(Attempted, kept) :
          /\ answered' = [ answered EXCEPT ![Attempted] = Append(@, a) ]
          /\ IF a = "ok"
             THEN /\ kept' = "new"
                  /\ sdPc' = "done"
                  /\ outcome' = "returned"
                  /\ cause' = cause
             ELSE /\ kept' = kept
                  /\ IF a = "conflict" /\ left > 0
                     THEN /\ sdPc' = "yield"
                          /\ UNCHANGED <<outcome, cause>>
                     ELSE /\ sdPc' = "done"
                          /\ outcome' = "thrown"
                          /\ cause' = a
    /\ UNCHANGED <<gwOwn, stored, runOwn, sdModule, RETRIES, DONT_OVERWRITE, sdArg,
                   operation, left>>

\* await setImmediatePromise() is over: the retry call is made.
RetryAfterYield ==
    /\ sdPc = "yield"
    /\ IF RetryCall(sdModule, operation) = "ReferenceError"
       THEN /\ sdPc' = "done"
            /\ outcome' = "thrown"
            /\ cause' = "ReferenceError"
            /\ left' = left
       ELSE /\ sdPc' = "attempt"
            /\ left' = left - 1
            /\ UNCHANGED <<outcome, cause>>
    /\ UNCHANGED <<gwOwn, stored, runOwn, sdModule, RETRIES, DONT_OVERWRITE, sdArg,
                   operation, kept, answered>>

NextRetry == AttemptAnswered \/ RetryAfterYield

SpecRetry == RetryInit /\ [][NextRetry]_vars


(***************************************************************************)
(* Claims about the gateway.                                               *)
(***************************************************************************)
NewImports == imports' \ imports

\* C8 (stated as claimed): when the process has exited after a clean end of
\* a run that saved documents, flush-all was invoked exactly once and no saved
\* document is left in a buffer or in an unanswered import request.
C8_NothingBufferedAtExit ==
    dbPhase = "exited" =>
        /\ calls > 0 => flushCalls = 1
        /\ \A k \in Collections : entities[k] = << >>
        /\ imports = {}

\* C9 (stated as claimed): when commit returns, every document that was in a
\* buffer when it was called is in storage, and every buffer is empty.
C9_CommitPersistsEverything ==
    [][ flushCalls' = flushCalls + 1 =>
          /\ \A k \in Collections :
                \A i \in 1..Len(entities[k]) : BagIn(entities[k][i], stored'[k])
          /\ \A k \in Collections : entities'[k] = << >> ]_vars

\* C10: a save call appends its document to the buffer of its kind and sends
\* nothing to storage while the buffer stays below the threshold; when the
\* buffer reaches the threshold the whole buffer goes out in exactly one
\* bulk-import request and the buffer is emptied.
C10_SaveBuffersUntilThreshold ==
    [][ calls' = calls + 1 =>
          /\ \A k \in Collections :
                \/ /\ entities'[k] = entities[k]
                   /\ \A r \in NewImports : r.kind # k
                \/ /\ Len(entities[k]) + 1 < NUM_BUFFERED_DOCUMENTS
                   /\ Len(entities'[k]) = Len(entities[k]) + 1
                   /\ SubSeq(entities'[k], 1, Len(entities[k])) = entities[k]
                   /\ \A r \in NewImports : r.kind # k
                \/ /\ Len(entities[k]) + 1 = NUM_BUFFERED_DOCUMENTS
                   /\ entities'[k] = << >>
                   /\ Cardinality({ r \in NewImports : r.kind = k }) = 1
                   /\ \A r \in NewImports :
                         r.kind = k => /\ Len(r.docs) = NUM_BUFFERED_DOCUMENTS
                                       /\ SubSeq(r.docs, 1, Len(entities[k])) = entities[k]
          /\ \/ entities'[last'.kind] # entities[last'.kind]
             \/ \E r \in NewImports : r.kind = last'.kind
          /\ imports \subseteq imports'
          /\ importCalls' - importCalls = Cardinality(NewImports)
          /\ stored' = stored ]_vars

\* C10 witness: a save call has just filled a buffer to the threshold and the
\* batch is on its way to storage.
C10_ThresholdFlushSeen ==
    /\ last.op \notin {"none", "commit"}
    /\ entities[last.kind] = << >>
    /\ \E r \in imports : r.kind = last.kind /\ Len(r.docs) = NUM_BUFFERED_DOCUMENTS

(***************************************************************************)
(* Claims about a run of the importers.                                    *)
(***************************************************************************)
\* processBlock is called for the first time in this step.
FirstHanded == handed = << >> /\ handed' # << >>

\* Storage held a block when the run began (nothing is saved before the
\* first processBlock call, so this reads the state the run found).
FoundBlocks == stored[BLOCKS] # EmptyBag

AnsweredOnExisting(op) ==
    /\ res[op] = "sent"
    /\ res'[op] # "sent"
    /\ Request(variant, op).type = "save"
    /\ KeyIn(stored[Request(variant, op).col], Request(variant, op).doc._key)

\* What C2 says of one step of index.js: the first block handed over is the
\* stored block of greatest height, each later one is the nextblockhash of
\* the one before, and a save that meets an existing entry is followed by a
\* replace that leaves exactly the new document under that key.
C2_Step ==
    /\ FirstHanded /\ FoundBlocks => handed'[1] = LastBlock.height
    /\ handed # << >> /\ Len(handed') = Len(handed) + 1 =>
          Hash(handed'[Len(handed')]) = NextHashOrNull(handed[Len(handed)])
    /\ \A op \in DOMAIN res :
          /\ AnsweredOnExisting(op) => res'[op] = "exists"
          /\ res[op] = "exists" /\ res'[op] # "exists" =>
                /\ res'[op] = "replaced"
                /\ { d \in BagToSet(stored'[Request(variant, op).col]) :
                        d._key = Request(variant, op).doc._key }
                   = { Request(variant, op).doc }
                /\ CopiesIn(Request(variant, op).doc, stored'[Request(variant, op).col]) = 1

\* C2 (as claimed): unless --clean is given, a run of index.js on stored
\* blocks processes the stored block of greatest height again, overwrites
\* its entries and follows nextblockhash from there.
C2_ContinuesOverwriting == [][ ~clean => C2_Step ]_vars

\* C2 (amended): the same, unless --clean or --dont-overwrite is given.
C2_ContinuesOverwritingByDefault == [][ ~clean /\ ~dontOverwrite => C2_Step ]_vars

\* A resumed run of index.js has replaced an entry of the block it began
\* with and has gone on to that block's successor.
C2_OverwroteAndWentOn ==
    /\ variant = "index"
    /\ Len(handed) = 2
    /\ handed[2] = handed[1] + 1
    /\ \E op \in DOMAIN res : op[2] = handed[1] /\ res[op] = "replaced"

\* The writes C3 lists: the transaction, output, edge and block-summary
\* writes of a block (the address documents are not among them).
ListedWrites(b) ==
    { op \in BlockOps(variant, b) : op[1] \notin {"in.getDocument", "out.saveAddress"} }

\* C3 (as claimed): blocks are handed to processBlock in ascending height
\* along nextblockhash, and when one is handed over every transaction,
\* output, edge and block-summary write of the blocks before it has been
\* issued and has completed.
C3_PredecessorPersistedFirst ==
    [][ handed # << >> /\ Len(handed') = Len(handed) + 1 =>
          /\ handed'[Len(handed')] = handed[Len(handed)] + 1
          /\ \A k \in 1..Len(handed) : \A op \in ListedWrites(handed[k]) : Ok(res, op) ]_vars

\* The transaction summary document of transaction t of block b is persisted
\* in this step.
TransactionPersisted(b, t) ==
    /\ res[<<"saveTransaction", b, t, 0, 0>>] \in {"sent", "exists"}
    /\ res'[<<"saveTransaction", b, t, 0, 0>>] \in {"saved", "replaced"}

\* C4 (as claimed): when the summary document of a transaction is persisted,
\* every operation of its input and output sub-tasks, the address and edge
\* writes among them, has completed.
C4_SubTasksBeforeTransaction ==
    [][ \A b \in Heights : \A t \in 1..NumTx(b) :
          TransactionPersisted(b, t) =>
             \A op \in TransactionOps(variant, b, t) \ { <<"saveTransaction", b, t, 0, 0>> } :
                Ok(res, op) ]_vars

\* C5 (as claimed): when the summary document of a block is persisted, the
\* summary document of every transaction of the block has been persisted.
C5_TransactionsBeforeBlock ==
    [][ \A b \in Heights :
          /\ res[<<"saveBlock", b, 0, 0, 0>>] \in {"sent", "exists"}
          /\ res'[<<"saveBlock", b, 0, 0, 0>>] \in {"saved", "replaced"}
          => \A t \in 1..NumTx(b) : Ok(res, <<"saveTransaction", b, t, 0, 0>>) ]_vars

\* A block handed to processBlock that has neither been processed to its
\* end nor failed.
Abandoned(r, hd) ==
    \E k \in 1..Len(hd) :
       /\ ~processBlockDone(r, hd[k])
       /\ ~processBlockFailed(r, hd, hd[k])

\* C6 (as claimed): whatever interrupts arrive, the process never stops with
\* a block left mid-way.
C6_NeverStopsMidBlock == pc = "exited" => ~Abandoned(res, handed)

\* C6 (amended): the first interrupt only latches the stop flag and changes
\* nothing else; the process stops with a block left mid-way only when an
\* interrupt arrives with the flag already latched, or when the interrupt
\* handler itself fails because standard output is not a terminal.
C6_OnlySecondInterruptAbandons ==
    [][ /\ ~stop /\ stop' => UNCHANGED <<pc, exitCode, blockHash, block, rpc, handed, res, stored>>
        /\ pc # "exited" /\ pc' = "exited" /\ Abandoned(res', handed') =>
              (stop \/ ~tty) /\ pc \in {"getBlock", "processBlock"} ]_vars

\* The stop flag was latched while a block was being processed, and the
\* block was processed to its end before the process stopped.
C6_StoppedAfterBlock ==
    /\ pc = "exited"
    /\ stop
    /\ exitCode = 0
    /\ handed # << >>
    /\ handed[Len(handed)] < ChainLen
    /\ ~Abandoned(res, handed)

\* C7 (as claimed): no block is asked of the node for an absent hash, and the
\* loop ends in error only when processing a block failed.
C7_NoRequestForAbsentHash ==
    /\ rpc # Null
    /\ pc = "rejected" => \E k \in 1..Len(handed) : processBlockFailed(res, handed, handed[k])

(***************************************************************************)
(* Claims about failures.                                                  *)
(***************************************************************************)
\* C11 (stated as claimed): a rejected bulk import is fatal.  Once storage
\* has rejected a batch, no save call and no commit returns normally any
\* more: the failure has reached the caller and ended the run, so the run
\* does not carry on without the documents of the batch.
C11_ImportFailureIsFatal ==
    [][ importRejected => /\ calls' = calls
                          /\ flushCalls' = flushCalls ]_vars


\* The attempts of operation op are over.
Finished(op) ==
    \/ sdPc = "done"
    \/ op = "save" /\ (operation = "replace" \/ sdPc = "get")

\* C12 (stated as claimed): with retry budget RETRIES, an attempt answered
\* with the write conflict is followed by another attempt as long as at most
\* RETRIES attempts conflicted; an operation whose attempts are over either
\* ended with the answer of its last attempt, which was no conflict, or made
\* RETRIES + 1 attempts that all conflicted, and then the conflict is what
\* the caller gets; no attempt follows an error that is no conflict; no
\* operation makes more than RETRIES + 1 attempts.
C12_RetriesUpToBudget ==
    \A op \in {"save", "replace"} :
        LET as == answered[op]
            n  == Len(as)
        IN  /\ n <= RETRIES + 1
            /\ \A i \in 1..(n - 1) : as[i] = "conflict"
            /\ Finished(op) /\ n > 0 =>
                  /\ as[n] = "conflict" => n = RETRIES + 1
                  /\ (sdPc = "done" /\ operation = op /\ as[n] # "ok") => cause = as[n]


\* The save attempts ended with the unique-constraint error.
SaveFoundExisting ==
    /\ answered.save # << >>
    /\ answered.save[Len(answered.save)] = "exists"

\* C13: when the save of a document is answered with the unique-constraint
\* error, then with overwriting permitted (neither --dont-overwrite nor the
\* per-call flag) the save is not given up: a replace is made, and once
\* storage has accepted it the new document is stored and saveDocument
\* returns, while a replacement storage refused leaves the old document;
\* with overwriting disabled no replace is attempted, saveDocument throws
\* "Saving failed" caused by the unique-constraint error, and the stored
\* document is the old one.
C13_OverwriteOrFail ==
    SaveFoundExisting =>
        IF ~DONT_OVERWRITE /\ ~sdArg
        THEN /\ sdPc = "done" => outcome # "Saving failed"
             /\ ( /\ answered.replace # << >>
                  /\ answered.replace[Len(answered.replace)] = "ok" )
                   => sdPc = "done" /\ outcome = "returned" /\ kept = "new"
             /\ sdPc = "done" /\ outcome # "returned" => kept = "old"
        ELSE /\ sdPc = "done"
             /\ outcome = "Saving failed"
             /\ cause = "exists"
             /\ kept = "old"
             /\ answered.replace = << >>

\* C13 witness: a save met an existing document, overwriting was permitted,
\* and the call returned with the new document stored.
C13_Overwritten ==
    /\ SaveFoundExisting
    /\ ~DONT_OVERWRITE
    /\ ~sdArg
    /\ sdPc = "done"
    /\ outcome = "returned"
    /\ kept = "new"


(***************************************************************************)
(* Claims about replay.                                                    *)
(***************************************************************************)
DocumentCollections == { BLOCKS, TRANSACTIONS, OUTPUTS }

\* The block the run began with was in storage already, it has been processed
\* again to its end, and no later block has been begun.
Replayed ==
    /\ Len(handed) = 1
    /\ processBlockDone(res, handed[1])
    /\ \E op \in BlockOps(variant, handed[1]) : res[op] = "replaced"

\* What C14 says of one step: a save of a block, transaction or output
\* document that meets its own earlier copy does not fail, and when the
\* replayed block is done the three collections hold exactly what one
\* processing of the blocks up to it leaves.
C14_Step ==
    /\ \A op \in DOMAIN res :
          ( /\ AnsweredOnExisting(op)
            /\ Request(variant, op).col \in DocumentCollections ) => res'[op] # "threw"
    /\ Replayed' =>
          \A col \in DocumentCollections : stored'[col] = PriorStore(variant, handed'[1])[col]

\* C14 (as claimed): processing a stored block again (restart without
\* --clean) does not fail and leaves the block, transaction and output
\* collections as one processing leaves them.
C14_ReplayIsIdempotent == [][ ~clean => C14_Step ]_vars

\* C14 (amended): the same, unless --dont-overwrite is given.
C14_ReplayIsIdempotentByDefault == [][ ~clean /\ ~dontOverwrite => C14_Step ]_vars

\* C14 witness: block 2, stored by an earlier run together with block 1, has
\* been processed a second time and every document of it was replaced.
C14_BlockReplayed ==
    /\ variant = "index"
    /\ Replayed
    /\ handed[1] = ChainLen
    /\ \A op \in BlockOps(variant, handed[1]) :
          Request(variant, op).col \in DocumentCollections
             /\ Request(variant, op).type = "save" => res[op] = "replaced"


EdgeCollections == { ADDRESSES_TO_OUTPUTS, OUTPUTS_TO_TRANSACTIONS, TRANSACTIONS_TO_OUTPUTS }

\* C15 (stated as claimed): whatever blocks are processed again, no edge
\* collection holds two edges between the same two documents.
C15_NoDuplicateEdges ==
    \A col \in EdgeCollections :
        \A d \in BagToSet(stored[col]) :
            Cardinality({ e \in BagToSet(stored[col]) : e._from = d._from /\ e._to = d._to }) = 1
              /\ CopiesIn(d, stored[col]) = 1


(***************************************************************************)
(* Claims about addresses.                                                 *)
(***************************************************************************)
\* The output ids in the association list of address a, as storage has it.
AssociatedWith(a) ==
    UNION { { d.outputs[i] : i \in 1..Len(d.outputs) } :
            d \in { e \in BagToSet(stored[ADDRESSES]) : e._key = a /\ "outputs" \in DOMAIN e } }

\* C16 (stated as claimed): once the write that records an output for an
\* address has been answered, the address's list holds that output's id
\* for good, and no list holds an id twice.
C16_AddressKeepsEveryOutput ==
    /\ \A op \in DOMAIN res :
          op[1] = "out.saveAddress" /\ res[op] = "upserted" =>
             Request(variant, op).doc.outputs[1] \in AssociatedWith(Request(variant, op).doc._key)
    /\ \A d \in BagToSet(stored[ADDRESSES]) :
          "outputs" \in DOMAIN d =>
             \A i, j \in 1..Len(d.outputs) : d.outputs[i] = d.outputs[j] => i = j


\* The address writes of two different outputs of block b to one address.
SameAddressWrites(b) ==
    { pair \in BlockOps(variant, b) \X BlockOps(variant, b) :
        /\ pair[1][1] = "out.saveAddress"
        /\ pair[2][1] = "out.saveAddress"
        /\ <<pair[1][3], pair[1][4]>> # <<pair[2][3], pair[2][4]>>
        /\ Request(variant, pair[1]).doc._key = Request(variant, pair[2]).doc._key }

\* C17 (stated as claimed): in async mode, when the address writes of two
\* outputs of one block to the same address have both been answered, in
\* whichever order, neither has failed and the address is associated with
\* both outputs.
C17_ConcurrentAddressWritesKept ==
    ASYNC =>
      \A b \in Heights : \A pair \in SameAddressWrites(b) :
          Answered(res, pair[1]) /\ Answered(res, pair[2]) =>
             /\ ~Failed(res, pair[1])
             /\ ~Failed(res, pair[2])
             /\ \A k \in 1..2 :
                   Request(variant, pair[k]).doc.outputs[1]
                      \in AssociatedWith(Request(variant, pair[k]).doc._key)


(***************************************************************************)
(* Claims about inputs and outputs.                                        *)
(***************************************************************************)
\* The lookup of the output an input spends is answered in this step, and
\* the output is not stored.
AnsweredNotStored(op) ==
    /\ op[1] = "in.getDocument"
    /\ res[op] = "sent"
    /\ res'[op] # "sent"
    /\ ~KeyIn(stored[OUTPUTS], Request(variant, op).doc._key)

\* C18 (stated as claimed): when the output a non-coinbase input refers to
\* is not in storage, processInput does not throw: the input is passed over
\* with a warning and value 0.
C18_MissingOutputIsNotFatal ==
    [][ \A op \in DOMAIN res :
           AnsweredNotStored(op) => res'[op] = "notfound" /\ ~Failed(res', op) ]_vars


\* processOutput has been entered for the output served without scriptPubKey.
ReachedNoScript ==
    /\ noScript # <<0, 0>>
    /\ ix_OutputStarted(res, handed, noScript[1], noScript[2], 1)

\* C19: once index.js has reached an output without scriptPubKey, in either
\* mode, run() has rejected and the process ends with exit code 1; no save
\* of that output is issued and no document of it is stored; and no block
\* after the one that holds it is handed to processBlock.
C19_NoScriptAbortsRun ==
    ReachedNoScript =>
        /\ pc \in {"rejected", "exited"}
        /\ pc = "exited" => exitCode = 1
        /\ res[<<"out.saveOutput", noScript[1], noScript[2], 1, 0>>] = "none"
        /\ ~KeyIn(stored[OUTPUTS], OutputId(TxId(noScript[1], noScript[2]), "0"))
        /\ \A i \in 1..Len(handed) : handed[i] <= noScript[1]

\* C19 witness: in async mode the output without scriptPubKey, in a block
\* that has a successor, was reached, and the process has exited.
C19_AbortedInAsyncMode ==
    /\ ReachedNoScript
    /\ ASYNC
    /\ noScript[1] < ChainLen
    /\ pc = "exited"


\* C20 (stated as claimed): once storage has failed a write of the run, no
\* further block is handed to processBlock and no further block is asked of
\* the node.
C20_StorageFailureAbortsRun ==
    [][ (\E op \in DOMAIN res : Failed(res, op)) =>
           /\ handed' = handed
           /\ rpc' \in {rpc, NoRpc} ]_vars


\* C21: a process that has exited did so with code 0 when no exception went
\* uncaught and no rejected promise was left unhandled, and with a code
\* other than 0 when an exception went uncaught or an unhandled rejection
\* was still recorded at exit.
C21_ExitCodeTellsUnhandledErrors ==
    pc = "exited" =>
        /\ UncaughtException \notin reported /\ unhandledRejections = {} => exitCode = 0
        /\ UncaughtException \in reported \/ unhandledRejections # {} => exitCode # 0

\* run() rejected, nothing went uncaught, and the process left with code 1.
C21_ExitedOnUnhandledRejection ==
    /\ pc = "exited"
    /\ exitCode = 1
    /\ unhandledRejections = {RunPromise}
    /\ UncaughtException \notin reported

\* C22: while the process runs, unhandledRejections holds exactly the
\* promises that rejected with no handler and have not been given one since;
\* once the process has exited, every promise still in it was logged on the
\* way out.
C22_UnhandledRejectionsKeptAndReported ==
    /\ Running => unhandledRejections = RejectedUnhandled(res, pc, blockHash, handed)
    /\ pc = "exited" => unhandledRejections \subseteq reported

\* run() returned without an error and every request had been answered, yet
\* a write nobody waited for had failed: its error was logged on the way out.
C22_ReportedAfterCleanEnd ==
    /\ pc = "exited"
    /\ handed # << >>
    /\ \A op \in DOMAIN res : ~InFlight(op)
    /\ UncaughtException \notin reported
    /\ RunPromise \notin unhandledRejections
    /\ unhandledRejections # {}
    /\ reported = unhandledRejections

\* C23 (as claimed): a process that exited after run() was aborted by an
\* error, with at least one block or transaction counted, left with a code
\* other than 0 and logged the final summary.
C23_AbortedRunStillSummarised ==
    /\ pc = "exited"
    /\ RunPromise \in unhandledRejections
    /\ blocksCounter + transactionsCounter > 0
    => exitCode # 0 /\ summary

\* C24: a run started with --clean asks no block of the node, hands no block
\* to processBlock and sends no write; the only change it makes to storage is
\* to empty every collection, and from its start it goes straight to its end
\* (or is interrupted).  A run started without --clean never removes a
\* document from any collection.
C24_CleanTruncatesAndEnds ==
    [][ /\ clean =>
            /\ rpc' = NoRpc
            /\ handed' = << >>
            /\ \A op \in DOMAIN res' : res'[op] = "none"
            /\ pc' \in {"start", "ended", "exited"}
            /\ pc = "start" /\ pc' = "ended" => \A col \in DOMAIN stored' : stored'[col] = EmptyBag
            /\ stored' # stored => pc = "start" /\ pc' = "ended"
        /\ ~clean =>
            \A col \in DOMAIN stored :
                BagCardinality(stored'[col]) >= BagCardinality(stored[col]) ]_vars

\* A run with --clean came to its end by itself, leaving every collection
\* empty.
C24_CleanedAndTerminated ==
    /\ clean
    /\ pc = "exited"
    /\ ~stop
    /\ exitCode = 0
    /\ \A col \in DOMAIN stored : stored[col] = EmptyBag

\* C25: when run() has resolved where to start, the height it holds is the
\* greatest height among the stored blocks, or 1 when no block is stored; and
\* on an empty block collection the block it asks of the node first is the
\* one the node names for height 1.
C25_ResumeHeightIsMaxOrOne ==
    [][ pc = "start" /\ pc' = "getBlock" =>
          IF stored[BLOCKS] = EmptyBag
          THEN block' = 1 /\ rpc' = NodeBlockHash(1)
          ELSE /\ \E d \in BagToSet(stored[BLOCKS]) : d.height = block'
               /\ \A d \in BagToSet(stored[BLOCKS]) : d.height <= block' ]_vars

\* A run on an empty database waits for the block of height 1.
C25_StartedFromGenesis ==
    /\ pc = "getBlock"
    /\ handed = << >>
    /\ stored[BLOCKS] = EmptyBag
    /\ block = 1
    /\ rpc = NodeBlockHash(1)

\* 50 coins halved n times.
RECURSIVE Halved(_, _)
Halved(q, n) == IF n = 0 THEN q ELSE Halved(Half(q), n - 1)

\* C26 (as claimed): getBlockSubsidy(h) returns 50 / 2^floor(h / 210000): 50
\* at heights 0 and 209999, 25 at height 210000, 12.5 at height 420000.
C26_SubsidyHalvesEvery210000 ==
    sbSubsidy # <<0, 0>> =>
        /\ sbSubsidy = Halved(Coins(50), sbHeight \div 210000)
        /\ sbHeight \in {0, 209999} => sbSubsidy = <<50, 1>>
        /\ sbHeight = 210000 => sbSubsidy = <<25, 1>>
        /\ sbHeight = 420000 => sbSubsidy = <<25, 2>>

\* A run over the two-block chain that processed both blocks to the end and
\* left of itself, without an error.
ForkProcessed ==
    /\ fork
    /\ pc = "exited"
    /\ exitCode = 0
    /\ ~stop
    /\ handed = <<1, ForkBlock>>

Count(col) == BagCardinality(stored[col])

\* C27 (as claimed): after both blocks of the two-block chain are processed,
\* storage holds exactly 2 blocks, 2 transactions and 2 outputs.
C27_TwoBlocksTwoTransactionsTwoOutputs ==
    ForkProcessed =>
        Count(BLOCKS) = 2 /\ Count(TRANSACTIONS) = 2 /\ Count(OUTPUTS) = 2

\* C27 (amended): after both blocks of the two-block chain are processed,
\* storage holds exactly 2 blocks, 2 transactions and 3 outputs: the
\* coinbase-key output, block 1's output and the output of the transaction
\* that spends it.
C27_TwoBlocksTwoTransactionsThreeOutputs ==
    ForkProcessed =>
        /\ Count(BLOCKS) = 2
        /\ Count(TRANSACTIONS) = 2
        /\ { d._key : d \in BagToSet(stored[OUTPUTS]) } =
              { OutputId(TxId(1, 1), "coinbase"), OutputId(TxId(1, 1), "0"),
                OutputId(TxId(ForkBlock, 1), "0") }
        /\ Count(OUTPUTS) = 3

\* Both blocks were processed from an empty database.
C27_BothBlocksProcessed ==
    /\ ForkProcessed
    /\ ~ASYNC
    /\ \A op \in BlockOps("index", 1) : res[op] = "saved" \/ res[op] = "upserted"
    /\ Count(OUTPUTS) = 3

\* C28: after both blocks of the two-block chain are processed, address A is
\* associated with block 1's output, and an edge leads from block 1's output
\* to the transaction of the second block, which spends it.
C28_AddressAndSpendingEdge ==
    ForkProcessed =>
        /\ OutputId(TxId(1, 1), "0") \in AssociatedWith("A")
        /\ \E e \in BagToSet(stored[OUTPUTS_SPENT_IN]) :
              /\ e._from = <<OUTPUTS, OutputId(TxId(1, 1), "0")>>
              /\ e._to = <<TRANSACTIONS, TxId(ForkBlock, 1)>>

\* Both blocks were processed with --async, and the lookup of the spent
\* output found it.
C28_SpentOutputFound ==
    /\ ForkProcessed
    /\ ASYNC
    /\ res[<<"in.getDocument", ForkBlock, 1, 1, 0>>] = "found"
    /\ res[<<"in.saveEdge", ForkBlock, 1, 1, 0>>] = "saved"
    /\ res[<<"out.saveAddress", 1, 1, 1, 1>>] = "upserted"

\* C29 (as claimed): without --async at most one storage operation of the
\* run is unanswered at any time: each is answered before the next sub-task
\* starts.
C29_SequentialOneAtATime ==
    ~ASYNC => Cardinality({ op \in DOMAIN res : InFlight(op) }) <= 1

\* The edges storage holds from the output that input i of transaction t of
\* block b names to that transaction.
SpentInEdges(b, t, i) ==
    { e \in BagToSet(stored[OUTPUTS_SPENT_IN]) :
        /\ e._from = <<OUTPUTS, InputOutputId(b, t, i)>>
        /\ e._to = <<TRANSACTIONS, TxId(b, t)>> }

\* C30 (as claimed): once a transaction has been processed, storage holds
\* for each of its inputs exactly one edge from the output the input names to
\* the transaction, whether or not that output was found.
C30_OneEdgePerInput ==
    \A b \in Heights : \A t \in 1..NumTx(b) :
        Ok(res, <<"saveTransaction", b, t, 0, 0>>) =>
            \A i \in 1..Len(Vin(b, t)) :
                /\ Cardinality(SpentInEdges(b, t, i)) = 1
                /\ \A e \in SpentInEdges(b, t, i) : CopiesIn(e, stored[OUTPUTS_SPENT_IN]) = 1

\* C31 (as claimed): every transaction document a step of the run persists
\* carries, besides its key, the hash of the block that holds the
\* transaction.
C31_TransactionCarriesBlockHash ==
    [][ \A d \in BagToSet(stored'[TRANSACTIONS]) \ BagToSet(stored[TRANSACTIONS]) :
          /\ "blockhash" \in DOMAIN d
          /\ \E b \in Heights : \E t \in 1..NumTx(b) :
                d._key = TxId(b, t) /\ d.blockhash = Block(b).hash ]_vars

\* C32 (as claimed): when map(processInput, ...) has returned, a warning
\* was logged for exactly the coinbase inputs other than the first input of
\* the block's first transaction, with --async and without.
C32_WarnsOnMisplacedCoinbase ==
    mpPc = "returned" =>
        \A k \in 1..Len(mpList) :
            k \in mpWarned <=> mpList[k] = "coinbase" /\ ~(k = 1 /\ mpTx = 0)

\* C40 (as claimed): when map has returned, func was called once per
\* element, in order, with the element and its index, and ret holds one
\* result per element in the order of the elements, with --async and
\* without.
C40_MapCallsOncePerElementInOrder ==
    mpPc = "returned" =>
        /\ Len(mpCalls) = Len(mpList)
        /\ \A k \in 1..Len(mpCalls) :
              mpCalls[k] = [ element |-> mpList[k], index |-> <<k - 1>> ]
        /\ Len(mpRet) = Len(mpList)
        /\ \A k \in 1..Len(mpRet) : mpRet[k] = Result(mpList[k])

\* The summary document of block b is persisted in this step.
BlockPersisted(b) ==
    /\ res[<<"saveBlock", b, 0, 0, 0>>] \in {"sent", "exists"}
    /\ res'[<<"saveBlock", b, 0, 0, 0>>] \in {"saved", "replaced"}

\* C33 (as claimed): when the summary document of a transaction is
\* persisted, the summary document of its block has been persisted.
C33_BlockBeforeTransactions ==
    [][ \A b \in Heights : \A t \in 1..NumTx(b) :
          TransactionPersisted(b, t) => Ok(res, <<"saveBlock", b, 0, 0, 0>>) ]_vars

\* C33 (amended): the summary document of a transaction is persisted after
\* the output documents of the transaction, and the summary document of a
\* block after the summary documents of all its transactions, when its own
\* write has not yet been sent.
C33_TransactionsBeforeBlock ==
    [][ \A b \in Heights :
          /\ \A t \in 1..NumTx(b) :
                TransactionPersisted(b, t) =>
                    /\ res[<<"saveBlock", b, 0, 0, 0>>] = "none"
                    /\ \A o \in 1..Len(Vout(b, t)) : Ok(res, <<"out.saveOutput", b, t, o, 0>>)
          /\ BlockPersisted(b) =>
                \A t \in 1..NumTx(b) : Ok(res, <<"saveTransaction", b, t, 0, 0>>) ]_vars

\* The summary of a block of two transactions was persisted in a run with
\* --async.
C33_BlockSummaryPersisted ==
    /\ ASYNC
    /\ res[<<"saveBlock", ChainLen, 0, 0, 0>>] = "saved"
    /\ \A t \in 1..NumTx(ChainLen) : res[<<"saveTransaction", ChainLen, t, 0, 0>>] = "saved"

\* C34 (as claimed): whenever storage holds the summary document of a block
\* this run processed, no write derived from that block or from a block the
\* run processed before it is still unanswered.
C34_BlockDocumentIsCheckpoint ==
    \A k \in 1..Len(handed) :
        Ok(res, <<"saveBlock", handed[k], 0, 0, 0>>) =>
            \A j \in 1..k : \A op \in BlockOps(variant, handed[j]) : ~InFlight(op)

\* How often a document occurs in a buffer, and in the batches of a set of
\* bulk-import requests.
Occurrences(doc, docs) == Cardinality({ i \in 1..Len(docs) : docs[i] = doc })

RECURSIVE OccurrencesIn(_, _)
OccurrencesIn(doc, requests) ==
    IF requests = {} THEN 0
    ELSE LET r == CHOOSE x \in requests : TRUE
         IN  Occurrences(doc, r.docs) + OccurrencesIn(doc, requests \ {r})

RECURSIVE Batched(_)
Batched(requests) ==
    IF requests = {} THEN 0
    ELSE LET r == CHOOSE x \in requests : TRUE
         IN  Len(r.docs) + Batched(requests \ {r})

\* The number of documents a call passes to the buffer of a kind.
Passed(op, kind) ==
    IF op = "commit" THEN 0
    ELSE IF kind = last'.kind THEN 1
    ELSE IF op = "saveAddress" /\ kind = ADDRESSES_TO_OUTPUTS THEN 1
    ELSE 0

\* C35: in every step of the gateway and for every kind, the documents of the
\* kind's buffer and of the bulk-import calls the step issues for that kind
\* are the documents the buffer held before plus the ones the call was given:
\* a buffered document stays in its buffer or goes into exactly one import
\* call for its own collection, once; a request, once sent, is only answered.
C35_EachDocumentInOneImportOfItsKind ==
    [][ /\ \A k \in Collections :
              LET sent == { r \in NewImports : r.kind = k }
              IN  /\ \A i \in 1..Len(entities[k]) :
                        Occurrences(entities[k][i], entities'[k])
                            + OccurrencesIn(entities[k][i], sent)
                        = Occurrences(entities[k][i], entities[k])
                  /\ Len(entities'[k]) + Batched(sent)
                        = Len(entities[k])
                            + (IF calls' = calls + 1 \/ flushCalls' = flushCalls + 1
                               THEN Passed(last'.op, k) ELSE 0)
                  /\ \A r \in sent : r.docs # << >> /\ entities'[k] = << >>
        /\ \A r \in NewImports : r.kind \in Collections /\ r.n > importCalls
        /\ importCalls' - importCalls = Cardinality(NewImports) ]_vars

\* C35 witness: commit has flushed a partly filled buffer after a threshold
\* flush: a full batch and a batch of one document are on their way.
C35_ThresholdAndCommitBatches ==
    /\ flushCalls = 1
    /\ \E r \in imports : Len(r.docs) = NUM_BUFFERED_DOCUMENTS
    /\ \E r \in imports : Len(r.docs) = 1
    /\ \A k \in Collections : entities[k] = << >>

\* C36: between calls of the gateway every buffer holds fewer documents than
\* the threshold.
C36_BuffersBelowThreshold ==
    \A k \in Collections : Len(entities[k]) < NUM_BUFFERED_DOCUMENTS

\* C36 witness: a save call has returned and left its buffer one document
\* short of the threshold, after an earlier save had flushed the same buffer.
C36_BufferRefilledAfterFlush ==
    /\ last.op \notin {"none", "commit"}
    /\ Len(entities[last.kind]) = NUM_BUFFERED_DOCUMENTS - 1
    /\ importCalls > 0
    /\ calls > NUM_BUFFERED_DOCUMENTS

C38_AttemptsWithinBudget ==
    [][ /\ Len(answered'.save) <= RETRIES + 1
        /\ Len(answered'.replace) <= RETRIES + 1
        /\ Len(answered'.save) + Len(answered'.replace) <= 2 * (RETRIES + 1)
        /\ answered'.replace # << >> =>
              /\ answered'.save # << >>
              /\ answered'.save[Len(answered'.save)] = "exists"
              /\ \A i \in 1..Len(answered'.save) : answered'.save[i] # "ok"
        /\ answered.replace # << >> => answered'.save = answered.save ]_vars

\* C38 witness: both phases have used their whole budget: RETRIES + 1 save
\* attempts, the last one refused because the key exists, then RETRIES + 1
\* replace attempts, with a budget above 0.
C38_BothBudgetsUsed ==
    /\ RETRIES > 0
    /\ sdPc = "done"
    /\ Len(answered.save) = RETRIES + 1
    /\ Len(answered.replace) = RETRIES + 1

\* C39 (as claimed): every attempt of a single-document operation, the
\* retries after a write conflict included, sends storage the operation the
\* caller asked for: a save is never retried as a replace, nor a replace as
\* a save.
C39_RetryRepeatsTheOperation ==
    /\ operation = "save" => answered.replace = << >>
    /\ operation = "replace" => answered.save = << >>

====
